---- MODULE Spec2Model ----
(***************************************************************************)
(* Soil Contact Model (SCM) deformable terrain: SCMLoaderOld and the       *)
(* SCMTerrainOld facade (src/src/SCMTerrainOld.cpp).                        *)
(*                                                                         *)
(* Real quantities are fixed-point integers:                                *)
(*   heights, sinkage     millimetres                                       *)
(*   pressures            units of 50 Pa                                    *)
(*   velocities           m/s = mm/ms, with a solver step of 1 ms           *)
(*   horizontal lengths   millimetres (m_delta = 0.1 m); m_area = 1 cell     *)
(*   ratios (mu, 1/b, 1-exp) thousandths                                    *)
(* A division of doubles is the integer quotient of the scaled operands.    *)
(***************************************************************************)
EXTENDS Integers, Sequences, FiniteSets, TLC

\* ------------------------------------------------------------------------
\* Bounds of the exploration
\* ------------------------------------------------------------------------
MaxSteps == 2
MaxSetup == 1
MaxRestore == 1
\* largest hit map handed to the contact patch search alone
MaxHits == 4
\* threads of the parallel ray-casting loop
NumThreads == 2
\* Arguments of SetBulldozingParameters
ErosionIterations == 1
ErosionPropagations == 1
\* active domains added by the user
MaxDomains == 2

\* ------------------------------------------------------------------------
\* Program constants
\* ------------------------------------------------------------------------
NoHit == 1000000000
TestOffsetUp == 100
TestOffsetDown == 500
Milli == 1000
FlowFactor == 1200
ErosionAngle == 40
m_delta == 100
m_area == 1
StepSize == 1
m_nx == 1
m_ny == 1

Nil == "nil"

\* ------------------------------------------------------------------------
\* Vectors
\* ------------------------------------------------------------------------
Vadd(a, b) == <<a[1] + b[1], a[2] + b[2], a[3] + b[3]>>
Vsub(a, b) == <<a[1] - b[1], a[2] - b[2], a[3] - b[3]>>
Vscale(a, k) == <<a[1] * k, a[2] * k, a[3] * k>>
Vneg(a) == <<-a[1], -a[2], -a[3]>>
Vdot(a, b) == a[1] * b[1] + a[2] * b[2] + a[3] * b[3]
Vcross(a, b) ==
    <<a[2] * b[3] - a[3] * b[2], a[3] * b[1] - a[1] * b[3], a[1] * b[2] - a[2] * b[1]>>
VNULL == <<0, 0, 0>>

Abs(x) == IF x < 0 THEN -x ELSE x
Quot(a, b) == IF (a < 0) = (b < 0) THEN Abs(a) \div Abs(b) ELSE -(Abs(a) \div Abs(b))

\* Integer square root (floor), by bisection on lo..hi
RECURSIVE ISqrtIn(_, _, _)
ISqrtIn(n, lo, hi) ==
    IF lo >= hi THEN lo
    ELSE LET mid == (lo + hi + 1) \div 2
         IN IF mid * mid <= n THEN ISqrtIn(n, mid, hi) ELSE ISqrtIn(n, lo, mid - 1)

ISqrt(n) == ISqrtIn(n, 0, 40000)

\* ChVector3::Normalize: a null vector becomes the x axis
Normalize(v) ==
    LET len == ISqrt(Vdot(v, v))
    IN IF len = 0 THEN <<1, 0, 0>> ELSE <<Quot(v[1], len), Quot(v[2], len), Quot(v[3], len)>>

RECURSIVE Pow(_, _)
Pow(b, e) == IF e = 0 THEN 1 ELSE b * Pow(b, e - 1)

\* 1000 * (1 - exp(-k / J)), rounded
OneMinusExp(k, J) ==
    LET q == Quot(10 * k, J)
        table == <<95, 181, 259, 330, 393, 451, 503, 551, 593, 632>>
    IN IF q <= 0 THEN 0
       ELSE IF q <= 10 THEN table[q]
       ELSE IF q <= 20 THEN 865
       ELSE IF q <= 30 THEN 950
       ELSE 1000

\* ------------------------------------------------------------------------
\* Grid cells
\* ------------------------------------------------------------------------
\* The four directions with the last one mistyped as a diagonal
neighbors4Diagonal == << <<0, -1>>, <<-1, 0>>, <<1, 0>>, <<1, 1>> >>

neighbors4 == << <<0, -1>>, <<-1, 0>>, <<1, 0>>, <<0, 1>> >>
Cadd(a, b) == <<a[1] + b[1], a[2] + b[2]>>

LexLess(a, b) == a[1] < b[1] \/ (a[1] = b[1] /\ a[2] < b[2])

\* The cells of S in lexicographic order
RECURSIVE SortedSeq(_)
SortedSeq(S) ==
    IF S = {} THEN <<>>
    ELSE LET m == CHOOSE x \in S : \A y \in S : x = y \/ LexLess(x, y)
         IN <<m>> \o SortedSeq(S \ {m})

Reverse(s) == [k \in 1..Len(s) |-> s[Len(s) + 1 - k]]
SeqToSet(s) == {s[k] : k \in 1..Len(s)}

\* ------------------------------------------------------------------------
\* Node records
\* ------------------------------------------------------------------------
NodeRecord(init_level, level, n) ==
    [level_initial |-> init_level, level |-> level, hit_level |-> NoHit, normal |-> n,
     sinkage |-> init_level - level, sinkage_plastic |-> 0, sinkage_elastic |-> 0,
     sigma |-> 0, sigma_yield |-> 0, kshear |-> 0, tau |-> 0, erosion |-> FALSE,
     massremainder |-> 0, step_plastic_flow |-> 0]

\* Flat patch (Initialize(sizeX, sizeY, delta))
GetInitHeight(loc) == 0
GetInitNormal(loc) == <<0, 0, 1>>

GetHeight(grid, loc) == IF loc \in DOMAIN grid THEN grid[loc].level ELSE GetInitHeight(loc)

\* ------------------------------------------------------------------------
\* Soil parameters
\* ------------------------------------------------------------------------
\* tan(angle in degrees), in thousandths
TanDeg(a) == IF a = 20 THEN 364 ELSE IF a = 30 THEN 577 ELSE IF a = 40 THEN 839 ELSE 0

Max(a, b) == IF a >= b THEN a ELSE b

\* Values set by the constructor (Bekker_n = 1.1 is held at 1)
DefaultSoil ==
    [Bekker_Kphi |-> 40, Bekker_Kc |-> 0, Bekker_n |-> 1, Mohr_cohesion |-> 1,
     Mohr_mu |-> TanDeg(20), Janosi_shear |-> 10, elastic_K |-> 1000, damping_R |-> 0]

\* Arguments a user passes to SetSoilParameters or returns from the callback:
\* the friction angle is in degrees
SoftDamped ==
    [Bekker_Kphi |-> 20, Bekker_Kc |-> 2, Bekker_n |-> 1, Mohr_cohesion |-> 2,
     Mohr_friction |-> 30, Janosi_shear |-> 5, elastic_K |-> 200, damping_R |-> 600]
StiffCohesive ==
    [Bekker_Kphi |-> 40, Bekker_Kc |-> 30, Bekker_n |-> 2, Mohr_cohesion |-> 1,
     Mohr_friction |-> 20, Janosi_shear |-> 10, elastic_K |-> 30, damping_R |-> 0]
SoilArgs == {SoftDamped, StiffCohesive}

SetSoilParametersResult(a) ==
    [Bekker_Kphi |-> a.Bekker_Kphi, Bekker_Kc |-> a.Bekker_Kc, Bekker_n |-> a.Bekker_n,
     Mohr_cohesion |-> a.Mohr_cohesion, Mohr_mu |-> TanDeg(a.Mohr_friction),
     Janosi_shear |-> a.Janosi_shear, elastic_K |-> Max(a.elastic_K, a.Bekker_Kphi),
     damping_R |-> a.damping_R]

\* A registered SoilParametersCallback: soil depends on the x coordinate
SoilCallbackSet(loc) == IF loc[1] < 0 THEN SoftDamped ELSE StiffCohesive

\* ------------------------------------------------------------------------
\* Collision world seen through RayHit: a flat-bottomed indenter over a set
\* of cells, translating with one velocity
\* ------------------------------------------------------------------------
\* The contactables are a rigid body, a contact triangle and a loadable surface
ContactableAt(ij) == IF ij[1] < 0 THEN "body1" ELSE IF ij[1] = 0 THEN "tri1" ELSE "surf1"
IsChBody(c) == c = "body1"
IsContactTriangle(c) == c = "tri1"
IsLoadableUV(c) == c = "surf1"
TriNodes == <<"n1", "n2", "n3">>

\* SCMContactableData attached to a contactable, if any
HasUserData(c) == c = "surf1"
GetUserData(c) ==
    [Mohr_cohesion |-> 3, Mohr_mu |-> 500, Janosi_shear |-> 5, area_ratio |-> 500]

Block == {<<-1, 0>>, <<0, 0>>, <<-1, 1>>, <<0, 1>>}
Apart == {<<-1, 0>>, <<1, 1>>}
Footprints == {Block, Apart}
\* indenters pressed into the soil while sliding, and indenters moving up at
\* the surface, above it within ray reach, and out of ray reach
Pressing == [footprint : Footprints, z : {-200, -100}, speed : {<<1, 0, -1>>}]
Lifting == [footprint : {Block}, z : {0, 50, 200}, speed : {<<0, 0, 1>>}]
Worlds == Pressing \cup Lifting

GetContactPointSpeed(world, c, point_abs) == world.speed
GetPos(world, body) == <<-m_delta, 0, world.z + 100>>

\* tri->ComputeUVfromP: the hit is at the triangle vertex selected by the row
ComputeUVfromP(point_abs) == IF point_abs[2] <= 0 THEN <<0, 0>> ELSE <<1, 0>>

\* GetCollisionSystem()->RayHit(from, to, result)
RayHit(world, ij, from, to) ==
    IF ij \in world.footprint /\ from[3] <= world.z /\ world.z <= to[3]
    THEN [hit |-> TRUE, contactable |-> ContactableAt(ij),
          abs_hitPoint |-> <<ij[1] * m_delta, ij[2] * m_delta, world.z>>]
    ELSE [hit |-> FALSE]

\* GetCollisionSystem()->GetBoundingBox(), projected on the grid
UpdateDefaultActiveDomain(world) ==
    LET xs == {c[1] : c \in world.footprint}
        ys == {c[2] : c \in world.footprint}
        x_min == CHOOSE v \in xs : \A w \in xs : v <= w
        x_max == CHOOSE v \in xs : \A w \in xs : v >= w
        y_min == CHOOSE v \in ys : \A w \in ys : v <= w
        y_max == CHOOSE v \in ys : \A w \in ys : v >= w
        n_x == x_max - x_min + 1
        n_y == y_max - y_min + 1
    IN [k \in 1..(n_x * n_y) |-> <<((k - 1) % n_x) + x_min, ((k - 1) \div n_x) + y_min>>]

\* ------------------------------------------------------------------------
\* Ray casting (map-reduce)
\* ------------------------------------------------------------------------
\* The ray cast from the cell ij: to = vertex + Z * up, from = to - Z * down
RayTo(grid, ij) ==
    Vadd(<<ij[1] * m_delta, ij[2] * m_delta, GetHeight(grid, ij)>>, <<0, 0, TestOffsetUp>>)
RayFrom(grid, ij) == Vsub(RayTo(grid, ij), <<0, 0, TestOffsetDown>>)

\* The test against the user-specified boundary; boundary = [enabled, min, max]
\* holds m_boundary and the (x, y) corners of m_aabb
OutsideBoundary(boundary, ij) ==
    /\ boundary.enabled
    /\ \/ ij[1] * m_delta > boundary.max[1] \/ ij[1] * m_delta < boundary.min[1]
       \/ ij[2] * m_delta > boundary.max[2] \/ ij[2] * m_delta < boundary.min[2]

\* One iteration of the parallel loop for the cell ij
HitRecord(res) ==
    [contactable |-> res.contactable, abs_point |-> res.abs_hitPoint, patch_id |-> -1]

\* The result of RayHit used without testing that the ray hit: a miss leaves
\* a record with the default contactable and hit point
UncheckedCastResult(res) ==
    [cast |-> TRUE, hit |-> TRUE,
     record |-> IF res.hit THEN HitRecord(res)
                ELSE [contactable |-> "body1", abs_point |-> VNULL, patch_id |-> -1]]

CastResult(res) ==
    IF res.hit THEN [cast |-> TRUE, hit |-> TRUE, record |-> HitRecord(res)]
    ELSE [cast |-> TRUE, hit |-> FALSE]

\* The loop body without the test against the boundary
RayCastCellUnbounded(grid, boundary, world, ij) ==
    CastResult(RayHit(world, ij, RayFrom(grid, ij), RayTo(grid, ij)))

RayCastCell(grid, boundary, world, ij) ==
    IF OutsideBoundary(boundary, ij) THEN [cast |-> FALSE, hit |-> FALSE]
    ELSE CastResult(RayHit(world, ij, RayFrom(grid, ij), RayTo(grid, ij)))

\* unordered_map::insert: an existing key keeps its value
MapInsert(m, k, v) == m @@ (k :> v)
MapInsertAll(m, other) == m @@ other

EmptyMap == [k \in {} |-> 0]

NewNode(ij) == NodeRecord(GetInitHeight(ij), GetInitHeight(ij), GetInitNormal(ij))

\* Sequential insertion in the node store of the cells of a thread-local map
InsertHitNodes(grid, t_hit) == grid @@ [ij \in DOMAIN t_hit |-> NewNode(ij)]

\* Sequential merge of the thread-local maps t_hits[1..nthreads]
RECURSIVE MergeThreadHits(_, _, _, _)
MergeThreadHits(grid, hits, t_hits, t_num) ==
    IF t_num > Len(t_hits) THEN [grid |-> grid, hits |-> hits]
    ELSE MergeThreadHits(InsertHitNodes(grid, t_hits[t_num]),
                         MapInsertAll(hits, t_hits[t_num]), t_hits, t_num + 1)

\* The iterations of the parallel loop over the given cells
CellCasts(grid, boundary, world, cells) ==
    [ij \in cells |-> RayCastCell(grid, boundary, world, ij)]

\* The thread-local map filled by the thread that ran the iterations in cells
ThreadHits(casts, cells) ==
    [ij \in {c \in DOMAIN casts \cap cells : casts[c].hit} |-> casts[ij].record]

NumRayCasts(casts) == Cardinality({c \in DOMAIN casts : casts[c].cast})

\* Sequential merge of the thread-local maps and counters
MergeCasts(grid, casts, share) ==
    [merged |-> MergeThreadHits(grid, EmptyMap,
                                <<ThreadHits(casts, share),
                                  ThreadHits(casts, DOMAIN casts \ share)>>, 1),
     num_ray_casts |-> NumRayCasts(casts)]

\* Every ray cast counted as a hit
RayCastResultAllHits(mc) ==
    [grid |-> mc.merged.grid, hits |-> mc.merged.hits, num_ray_casts |-> mc.num_ray_casts,
     num_ray_hits |-> mc.num_ray_casts]

RayCastResult(mc) ==
    [grid |-> mc.merged.grid, hits |-> mc.merged.hits, num_ray_casts |-> mc.num_ray_casts,
     num_ray_hits |-> Cardinality(DOMAIN mc.merged.hits)]

\* Ray casting over the domain range with the cells split between two
\* threads: thread 1 takes the cells of the range in share, thread 2 the rest
RayCasting(grid, boundary, world, range, share) ==
    RayCastResult(MergeCasts(grid, CellCasts(grid, boundary, world, SeqToSet(range)), share))

\* ------------------------------------------------------------------------
\* Contact patches
\* ------------------------------------------------------------------------
\* A neighbour joins the patch of the current node; fs = [hits, nodes, todo]
JoinPatch(fs, crt_ij, nbr_ij) ==
    [hits |-> [fs.hits EXCEPT ![nbr_ij].patch_id = fs.hits[crt_ij].patch_id],
     nodes |-> Append(fs.nodes, nbr_ij),
     todo |-> Append(fs.todo, nbr_ij)]

VisitNeighbor(fs, crt_ij, nbr_ij) ==
    IF nbr_ij \notin DOMAIN fs.hits THEN fs
    ELSE IF fs.hits[nbr_ij].patch_id # -1 THEN fs
    ELSE JoinPatch(fs, crt_ij, nbr_ij)

\* Inner loop over the 4 neighbours of crt_ij
RECURSIVE VisitNeighbors(_, _, _)
VisitNeighbors(fs, crt_ij, k) ==
    IF k > 4 THEN fs
    ELSE VisitNeighbors(VisitNeighbor(fs, crt_ij, Cadd(crt_ij, neighbors4[k])), crt_ij, k + 1)

\* Work-queue loop
RECURSIVE FloodFill(_)
FloodFill(fs) ==
    IF fs.todo = <<>> THEN fs
    ELSE FloodFill(VisitNeighbors([fs EXCEPT !.todo = Tail(fs.todo)], Head(fs.todo), 1))

\* A new contact patch grown from the hit node ij; ps = [hits, patches, num]
NewPatch(ps, ij) ==
    FloodFill([hits |-> [ps.hits EXCEPT ![ij].patch_id = ps.num],
               nodes |-> <<ij>>, todo |-> <<ij>>])

AddPatch(ps, fs) ==
    [hits |-> fs.hits, patches |-> Append(ps.patches, fs.nodes), num |-> ps.num + 1]

\* Outer loop over the hit map, traversed in the given order
RECURSIVE FindContactPatches(_, _, _)
FindContactPatches(ps, order, k) ==
    IF k > Len(order) THEN ps
    ELSE IF ps.hits[order[k]].patch_id # -1 THEN FindContactPatches(ps, order, k + 1)
    ELSE FindContactPatches(AddPatch(ps, NewPatch(ps, order[k])), order, k + 1)

\* utils::ChConvexHull2D over the cells of a patch, in grid spacings:
\* directed hull edges (counter-clockwise; both directions if flat)
LeftOrOn(e, r) ==
    LET dx == e[2][1] - e[1][1]
        dy == e[2][2] - e[1][2]
        rx == r[1] - e[1][1]
        ry == r[2] - e[1][2]
    IN \/ dx * ry - dy * rx > 0
       \/ /\ dx * ry - dy * rx = 0
          /\ dx * rx + dy * ry >= 0
          /\ dx * rx + dy * ry <= dx * dx + dy * dy

\* r lies strictly inside the segment e
Inside(e, r) ==
    /\ (e[2][1] - e[1][1]) * (r[2] - e[1][2]) = (e[2][2] - e[1][2]) * (r[1] - e[1][1])
    /\ r # e[1]
    /\ r # e[2]
    /\ (r[1] - e[1][1]) * (r[1] - e[2][1]) + (r[2] - e[1][2]) * (r[2] - e[2][2]) < 0

HullEdges(P) ==
    {e \in P \X P : e[1] # e[2] /\ \A r \in P : LeftOrOn(e, r) /\ ~Inside(e, r)}

EdgeCross(e) == e[1][1] * e[2][2] - e[2][1] * e[1][2]
EdgeLength(e) ==
    ISqrt(Milli * Milli * ((e[2][1] - e[1][1]) * (e[2][1] - e[1][1])
                           + (e[2][2] - e[1][2]) * (e[2][2] - e[1][2])))

\* twice the hull area, in squared grid spacings
RECURSIVE SumEdgeCross(_)
SumEdgeCross(E) ==
    IF E = {} THEN 0
    ELSE LET e == CHOOSE y \in E : TRUE IN EdgeCross(e) + SumEdgeCross(E \ {e})

\* hull perimeter, in thousandths of a grid spacing
RECURSIVE SumEdgeLength(_)
SumEdgeLength(E) ==
    IF E = {} THEN 0
    ELSE LET e == CHOOSE y \in E : TRUE IN EdgeLength(e) + SumEdgeLength(E \ {e})

\* perimeter / (2 * area) [1/m] in thousandths, 0 for a hull without area
OobRatio(E, area2) ==
    IF area2 = 0 THEN 0 ELSE Quot(SumEdgeLength(E) * Milli, area2 * m_delta)

HullOob(E) == OobRatio(E, SumEdgeCross(E))

\* Approximation of the Bekker term 1/b of a patch
PatchOob(nodes) == HullOob(HullEdges(SeqToSet(nodes)))

PatchOobs(patches) == [k \in 1..Len(patches) |-> PatchOob(patches[k])]

\* ------------------------------------------------------------------------
\* Contact forces
\* ------------------------------------------------------------------------
\* std::pow(sinkage, n) for an integer exponent, sinkage in mm, result in
\* units of mm * dm^(n-1)
PowSinkage(sinkage, n) == Quot(Pow(sinkage, n), Pow(100, n - 1))

\* Soil parameters used for a hit: the callback overwrites the eight locals
\* (Mohr_mu from the returned friction angle)
CallbackSoil(a) ==
    [Bekker_Kphi |-> a.Bekker_Kphi, Bekker_Kc |-> a.Bekker_Kc,
     Bekker_n |-> a.Bekker_n, Mohr_cohesion |-> a.Mohr_cohesion,
     Mohr_mu |-> TanDeg(a.Mohr_friction), Janosi_shear |-> a.Janosi_shear,
     elastic_K |-> a.elastic_K, damping_R |-> a.damping_R]

\* A callback that sets the parameters only for x < 0 and leaves the locals
\* as the previous hit left them elsewhere
SoilForHitPartial(soil_fun, locals, hit_point_loc) ==
    IF soil_fun # Nil /\ hit_point_loc[1] < 0
    THEN CallbackSoil(SoilCallbackSet(hit_point_loc)) ELSE locals

SoilForHit(soil_fun, locals, hit_point_loc) ==
    IF soil_fun # Nil THEN CallbackSoil(SoilCallbackSet(hit_point_loc)) ELSE locals

\* The statements of the loop body that write the node record nr, in order
HitLevel(nr, hit_point_loc) == [nr EXCEPT !.hit_level = hit_point_loc[3]]

HitOffset(nr) == nr.normal[3] * (nr.level_initial - nr.hit_level)

ElasticTry(nr, soil) ==
    [nr EXCEPT !.sigma = soil.elastic_K * (HitOffset(nr) - nr.sinkage_plastic)]

Unilateral(nr) == [nr EXCEPT !.sigma = 0]

Sink(nr) == [nr EXCEPT !.sinkage = HitOffset(nr), !.level = nr.hit_level]

AccumulateShear(nr, speed_abs, T) ==
    [nr EXCEPT !.kshear = @ + Vdot(speed_abs, Vneg(T)) * StepSize]

BekkerPressure(nr, soil, oob) ==
    (Quot(oob * soil.Bekker_Kc, Milli) + soil.Bekker_Kphi) * PowSinkage(nr.sinkage, soil.Bekker_n)

PlasticReturn(nr, soil, sigma) ==
    [nr EXCEPT !.sigma = sigma,
               !.sigma_yield = sigma,
               !.sinkage_plastic = nr.sinkage - Quot(sigma, soil.elastic_K),
               !.step_plastic_flow =
                   Quot((nr.sinkage - Quot(sigma, soil.elastic_K)) - nr.sinkage_plastic,
                        StepSize)]

PlasticCorrection(nr, soil, oob) ==
    IF nr.sigma > nr.sigma_yield THEN PlasticReturn(nr, soil, BekkerPressure(nr, soil, oob))
    ELSE nr

ElasticSinkage(nr) == [nr EXCEPT !.sinkage_elastic = nr.sinkage - nr.sinkage_plastic]

Damping(nr, Vn, soil) == [nr EXCEPT !.sigma = @ + (-Vn * soil.damping_R)]

ShearStress(tau_max, kshear, Janosi_shear) ==
    Quot(tau_max * OneMinusExp(kshear, Janosi_shear), Milli)

MohrCoulomb(nr, soil) ==
    [nr EXCEPT !.tau = ShearStress(soil.Mohr_cohesion + Quot(nr.sigma * soil.Mohr_mu, Milli),
                                   nr.kshear, soil.Janosi_shear)]

UpdateLevel(nr) == [nr EXCEPT !.level = nr.level_initial - Quot(nr.sinkage, nr.normal[3])]

\* Velocity at the touched node, normal and tangent directions
Tangent(speed_abs, N) == Normalize(Vneg(Vsub(speed_abs, Vscale(N, Vdot(speed_abs, N)))))

PointAbs(ij, nr) == <<ij[1] * m_delta, ij[2] * m_delta, nr.level>>

\* The node record at the end of the loop body of a touched node
Constitutive(nr, soil, oob, speed_abs, T) ==
    MohrCoulomb(
        Damping(
            ElasticSinkage(PlasticCorrection(AccumulateShear(Sink(nr), speed_abs, T), soil, oob)),
            Vdot(speed_abs, nr.normal), soil),
        soil)

\* Normal and tangential forces
TangentialStress(nr, contactable, cprops) ==
    IF HasUserData(contactable)
    THEN Quot((Milli - cprops.area_ratio) * nr.tau
                + cprops.area_ratio
                    * ShearStress(cprops.Mohr_cohesion + Quot(nr.sigma * cprops.Mohr_mu, Milli),
                                  nr.kshear, cprops.Janosi_shear),
              Milli)
    ELSE nr.tau

ContactForce(nr, contactable, T) ==
    Vadd(Vscale(nr.normal, m_area * nr.sigma),
         Vscale(T, m_area * TangentialStress(nr, contactable, GetUserData(contactable))))

\* Accumulate the generalized force on a rigid body
AccumulateBody(body_forces, body, force, moment) ==
    IF body \notin DOMAIN body_forces THEN body_forces @@ (body :> <<force, moment>>)
    ELSE [body_forces EXCEPT ![body] = <<Vadd(@[1], force), Vadd(@[2], moment)>>]

AccumulateNode(node_forces, node, node_force) ==
    IF node \notin DOMAIN node_forces THEN node_forces @@ (node :> node_force)
    ELSE [node_forces EXCEPT ![node] = Vadd(@, node_force)]

\* Accumulate the weighted force on the three nodes of a contact triangle
RECURSIVE AccumulateNodes(_, _, _, _)
AccumulateNodes(node_forces, s, force, i) ==
    IF i > 3 THEN node_forces
    ELSE AccumulateNodes(AccumulateNode(node_forces, TriNodes[i], Vscale(force, s[i])),
                         s, force, i + 1)

TriangleWeights(uv) == <<1 - uv[1] - uv[2], uv[1], uv[2]>>

SurfaceLoad(contactable, force) ==
    [type |-> "ChLoaderForceOnSurface", target |-> contactable, value |-> force]

\* Dispatch of the force of a touched node on the kind of the contactable.
\* st = [grid, modified, body_forces, node_forces, loads, soil, trial]
ApplyForce(st, contactable, cosim, world, point_abs, force) ==
    IF IsChBody(contactable)
    THEN [st EXCEPT !.body_forces =
             AccumulateBody(@, contactable, force,
                            Vcross(Vsub(point_abs, GetPos(world, contactable)), force))]
    ELSE IF IsContactTriangle(contactable)
    THEN [st EXCEPT !.node_forces =
             AccumulateNodes(@, TriangleWeights(ComputeUVfromP(point_abs)), force, 1)]
    ELSE IF IsLoadableUV(contactable) /\ ~cosim
    THEN [st EXCEPT !.loads = Append(@, SurfaceLoad(contactable, force))]
    ELSE st

\* A touched node: record updated, force applied
ForceOnContactable(st, ij, contactable, cosim, world, point_abs, T, nr) ==
    ApplyForce([st EXCEPT !.grid[ij] = UpdateLevel(nr)],
               contactable, cosim, world, point_abs, ContactForce(nr, contactable, T))

\* A touched node: marked modified, tangent direction from its velocity
TouchedHit(st, ij, h, oob, soil, cosim, world, nr, speed_abs, T) ==
    ForceOnContactable([st EXCEPT !.modified = Append(@, ij)], ij, h.contactable, cosim,
                       world, PointAbs(ij, nr), T, Constitutive(nr, soil, oob, speed_abs, T))

\* The unilaterality test written as sigma <= 0: a zero trial pressure is
\* clamped and skipped as well
AfterTryPositive(st, ij, h, oob, soil, cosim, world, nr, speed_abs) ==
    IF nr.sigma <= 0 THEN [st EXCEPT !.grid[ij] = Unilateral(nr)]
    ELSE TouchedHit(st, ij, h, oob, soil, cosim, world, nr, speed_abs,
                    Tangent(speed_abs, nr.normal))

\* The loop body from the unilaterality test on; nr holds the elastic try
AfterTry(st, ij, h, oob, soil, cosim, world, nr, speed_abs) ==
    IF nr.sigma < 0 THEN [st EXCEPT !.grid[ij] = Unilateral(nr)]
    ELSE TouchedHit(st, ij, h, oob, soil, cosim, world, nr, speed_abs,
                    Tangent(speed_abs, nr.normal))

\* The loop body with the soil parameters of this hit
HitWithSoil(st, ij, h, oob, soil, cosim, world, nr) ==
    AfterTry([st EXCEPT !.soil = soil, !.trial = MapInsert(@, ij, nr.sigma)],
             ij, h, oob, soil, cosim, world, nr,
             GetContactPointSpeed(world, h.contactable, PointAbs(ij, nr)))

SoilHit(st, ij, h, oob, soil, cosim, world) ==
    HitWithSoil(st, ij, h, oob, soil, cosim, world,
                ElasticTry(HitLevel(st.grid[ij], h.abs_point), soil))

\* Body of the loop on ray hits for the hit (ij, h)
\* (st.trial records the elastic-trial pressure of each processed hit)
ProcessHit(st, ij, h, oob, soil_fun, cosim, world) ==
    SoilHit(st, ij, h, oob, SoilForHit(soil_fun, st.soil, h.abs_point), cosim, world)

\* Loop on ray hits, in the traversal order of the hit map
RECURSIVE ProcessHits(_, _, _, _, _, _, _, _)
ProcessHits(st, hits, oobs, order, k, soil_fun, cosim, world) ==
    IF k > Len(order) THEN st
    ELSE ProcessHits(ProcessHit(st, order[k], hits[order[k]],
                                oobs[hits[order[k]].patch_id + 1], soil_fun, cosim, world),
                     hits, oobs, order, k + 1, soil_fun, cosim, world)

\* Loads for bodies and nodes carrying the accumulated force and torque
BodyLoads(body_forces) ==
    IF "body1" \in DOMAIN body_forces
    THEN << [type |-> "ChLoadBodyForce", target |-> "body1",
             value |-> body_forces["body1"][1]],
            [type |-> "ChLoadBodyTorque", target |-> "body1",
             value |-> body_forces["body1"][2]] >>
    ELSE <<>>

RECURSIVE NodeLoads(_, _)
NodeLoads(node_forces, i) ==
    IF i > 3 THEN <<>>
    ELSE (IF TriNodes[i] \in DOMAIN node_forces
          THEN << [type |-> "ChLoadNodeXYZ", target |-> TriNodes[i],
                   value |-> node_forces[TriNodes[i]]] >>
          ELSE <<>>) \o NodeLoads(node_forces, i + 1)

\* The loads created without the test of the co-simulation mode
CreateLoadsAlways(loads, body_forces, node_forces, cosim) ==
    loads \o BodyLoads(body_forces) \o NodeLoads(node_forces, 1)

CreateLoads(loads, body_forces, node_forces, cosim) ==
    IF ~cosim THEN loads \o BodyLoads(body_forces) \o NodeLoads(node_forces, 1) ELSE loads

\* ------------------------------------------------------------------------
\* Bulldozing
\* ------------------------------------------------------------------------
\* The level moved without its reference
RaiseLevelOnly(nr, amount) == [nr EXCEPT !.level = @ + amount]

Raise(nr, amount) == [nr EXCEPT !.level = @ + amount, !.level_initial = @ + amount]

\* The whole amount added to the level, without the clamp at hit_level
AddMaterialUnclamped(amount, nr) == Raise(nr, amount)

AddMaterialToNode(amount, nr) ==
    IF amount > nr.hit_level - nr.level
    THEN Raise([nr EXCEPT !.massremainder = @ + (amount - (nr.hit_level - nr.level))],
               nr.hit_level - nr.level)
    ELSE Raise(nr, amount)

RemoveMaterialFromNode(amount, nr) ==
    IF nr.massremainder > amount
    THEN Raise([nr EXCEPT !.massremainder = @ - amount], -amount)
    ELSE IF nr.massremainder < amount /\ nr.massremainder > 0
    THEN Raise([nr EXCEPT !.massremainder = 0], -(amount - nr.massremainder))
    ELSE Raise(nr, -amount)

\* TRUE; the store v is computed before the loop goes on (strict evaluation)
Evaluated(v) == (DOMAIN v = {}) => TRUE

Neighbors(ij) == {Cadd(ij, neighbors4[k]) : k \in 1..4}

\* Nodes of a patch that are touched (the effective contact patch)
Touched(grid, nodes) == {ij \in SeqToSet(nodes) : grid[ij].sigma > 0}

RECURSIVE SumFlow(_, _)
SumFlow(grid, cells) ==
    IF cells = {} THEN 0
    ELSE LET c == CHOOSE x \in cells : TRUE
         IN grid[c].step_plastic_flow + SumFlow(grid, cells \ {c})

\* Boundary of the effective contact patch made of the given nodes
PatchBoundary(grid, nodes) ==
    {nbr \in UNION {Neighbors(ij) : ij \in Touched(grid, nodes)} :
        nbr \notin DOMAIN grid \/ grid[nbr].sigma <= 0}

\* Target raise amount for each boundary node
RaiseAmount(tot_step_flow, size) ==
    IF size = 0 THEN 0 ELSE Quot(FlowFactor * tot_step_flow, Milli * size)

\* m_grid_map[ij] = nr
PutNode(grid, ij, nr) == IF ij \in DOMAIN grid THEN [grid EXCEPT ![ij] = nr] ELSE (ij :> nr) @@ grid

NodeOrNew(grid, ij) == IF ij \in DOMAIN grid THEN grid[ij] ELSE NewNode(ij)

\* A boundary node raised by the first patch that reaches it only
RaiseNodeOnce(bs, ij, diff) ==
    [grid |-> IF ij \in DOMAIN bs.grid /\ bs.grid[ij].erosion THEN bs.grid
              ELSE PutNode(bs.grid, ij,
                           AddMaterialToNode(diff, [NodeOrNew(bs.grid, ij) EXCEPT !.erosion = TRUE])),
     modified |-> IF ij \in DOMAIN bs.grid THEN Append(bs.modified, ij)
                  ELSE bs.modified \o <<ij, ij>>,
     boundary |-> bs.boundary]

\* Raise of one boundary node; bs = [grid, modified, boundary]
RaiseNode(bs, ij, diff) ==
    [grid |-> PutNode(bs.grid, ij,
                      AddMaterialToNode(diff, [NodeOrNew(bs.grid, ij) EXCEPT !.erosion = TRUE])),
     modified |-> IF ij \in DOMAIN bs.grid THEN Append(bs.modified, ij)
                  ELSE bs.modified \o <<ij, ij>>,
     boundary |-> bs.boundary]

\* Raise of the boundary nodes of one patch, visited in the given order
RECURSIVE RaiseBoundary(_, _, _, _)
RaiseBoundary(bs, order, k, diff) ==
    IF Evaluated(bs.grid) /\ k > Len(order) THEN bs
    ELSE RaiseBoundary(RaiseNode(bs, order[k], diff), order, k + 1, diff)

RaisePatch(bs, touched, p_boundary) ==
    RaiseBoundary([bs EXCEPT !.boundary = @ \cup p_boundary], SortedSeq(p_boundary), 1,
                  RaiseAmount(SumFlow(bs.grid, touched) * StepSize, Cardinality(p_boundary)))

\* (1) Raise boundaries of each contact patch
RECURSIVE RaiseBoundaries(_, _, _)
RaiseBoundaries(bs, patches, k) ==
    IF Evaluated(bs.grid) /\ k > Len(patches) THEN bs
    ELSE RaiseBoundaries(RaisePatch(bs, Touched(bs.grid, patches[k]),
                                    PatchBoundary(bs.grid, patches[k])),
                         patches, k + 1)

\* The front entering the cells in contact as well
NewFrontAny(grid, erosion_front) ==
    {nbr \in UNION {Neighbors(ij) : ij \in erosion_front} :
        nbr \notin DOMAIN grid \/ ~grid[nbr].erosion}

\* Neighbours that enter the erosion domain from a front
NewFront(grid, erosion_front) ==
    {nbr \in UNION {Neighbors(ij) : ij \in erosion_front} :
        nbr \notin DOMAIN grid \/ (~grid[nbr].erosion /\ grid[nbr].sigma <= 0)}

\* One dilation; ds = [grid, modified, domain, front]
Dilate(ds, front) ==
    [grid |-> [c \in front |-> [NodeOrNew(ds.grid, c) EXCEPT !.erosion = TRUE]] @@ ds.grid,
     modified |-> ds.modified \o SortedSeq(front),
     domain |-> ds.domain \cup front,
     front |-> front]

\* (2) Erosion domain: dilations of the boundary
RECURSIVE DilateBoundary(_, _)
DilateBoundary(ds, i) ==
    IF Evaluated(ds.grid) /\ i >= ErosionPropagations THEN ds
    ELSE DilateBoundary(Dilate(ds, NewFront(ds.grid, ds.front)), i + 1)

\* tan(erosion angle) * m_delta
DyLim == Quot(m_delta * TanDeg(ErosionAngle), Milli)

\* The amount diff moved to the level of the node dst, whatever its hit level
TransferUnclamped(grid, src, dst, diff) ==
    [grid EXCEPT ![src] = RemoveMaterialFromNode(diff, @),
                 ![dst] = Raise(@, diff)]

\* Move the amount diff from the node src to the node dst
Transfer(grid, src, dst, diff) ==
    [grid EXCEPT ![src] = RemoveMaterialFromNode(diff, @),
                 ![dst] = AddMaterialToNode(diff, @)]

\* (3.1) Flow remaining material to neighbor
FlowRemainder(grid, ij, nbr_ij) ==
    IF Quot(grid[ij].massremainder - grid[nbr_ij].massremainder, 8) > 0
    THEN Transfer(grid, ij, nbr_ij,
                  Quot(grid[ij].massremainder - grid[nbr_ij].massremainder, 8))
    ELSE grid

LevelDifference(grid, ij, nbr_ij) ==
    (grid[ij].level + grid[ij].massremainder)
        - (grid[nbr_ij].level + grid[nbr_ij].massremainder)

\* (3.2) Smoothing
SmoothBy(grid, ij, nbr_ij, dy) ==
    IF grid[nbr_ij].sigma = 0 /\ Quot(Abs(dy) - DyLim, 8) > 0
    THEN IF dy > 0 THEN Transfer(grid, ij, nbr_ij, Quot(Abs(dy) - DyLim, 8))
         ELSE Transfer(grid, nbr_ij, ij, Quot(Abs(dy) - DyLim, 8))
    ELSE grid

Smooth(grid, ij, nbr_ij) == SmoothBy(grid, ij, nbr_ij, LevelDifference(grid, ij, nbr_ij))

ErodePair(grid, ij, nbr_ij) ==
    IF nbr_ij \notin DOMAIN grid THEN grid
    ELSE Smooth(FlowRemainder(grid, ij, nbr_ij), ij, nbr_ij)

RECURSIVE ErodeNode(_, _, _)
ErodeNode(grid, ij, k) ==
    IF k > 4 THEN grid
    ELSE ErodeNode(ErodePair(grid, ij, Cadd(ij, neighbors4[k])), ij, k + 1)

RECURSIVE ErodeDomain(_, _, _)
ErodeDomain(grid, order, n) ==
    IF Evaluated(grid) /\ n > Len(order) THEN grid
    ELSE ErodeDomain(ErodeNode(grid, order[n], 1), order, n + 1)

\* (3) Erosion algorithm on the domain
RECURSIVE Erosion(_, _, _)
Erosion(grid, order, iter) ==
    IF Evaluated(grid) /\ iter >= ErosionIterations THEN grid
    ELSE Erosion(ErodeDomain(grid, order, 1), order, iter + 1)

BulldozingResult(ds) ==
    [grid |-> Erosion(ds.grid, SortedSeq(ds.domain), 0),
     modified |-> ds.modified,
     erosion_domain |-> ds.domain,
     num_erosion_nodes |-> Cardinality(ds.domain)]

ErosionDomain(bs) ==
    DilateBoundary([grid |-> bs.grid, modified |-> bs.modified, domain |-> bs.boundary,
                    front |-> bs.boundary], 0)

Bulldozing(grid, modified, patches) ==
    BulldozingResult(
        ErosionDomain(
            RaiseBoundaries([grid |-> grid, modified |-> modified, boundary |-> {}],
                            patches, 1)))

\* ------------------------------------------------------------------------
\* One step: SCMLoaderOld::ComputeInternalForces
\* ------------------------------------------------------------------------
\* The reset of the stress fields only
ResetStressOnly(nr) == [nr EXCEPT !.sigma = 0, !.sinkage_elastic = 0]

\* Reset of the nodes modified over the previous step
ResetNode(nr) ==
    [nr EXCEPT !.sigma = 0, !.sinkage_elastic = 0, !.step_plastic_flow = 0,
               !.erosion = FALSE, !.hit_level = NoHit]

ResetModifiedNodes(grid, modified) ==
    [ij \in DOMAIN grid |-> IF ij \in SeqToSet(modified) THEN ResetNode(grid[ij]) ELSE grid[ij]]

\* OpenMP static schedule over two threads: the first half of the range
StaticShare(range) == {range[k] : k \in 1..((Len(range) + 1) \div 2)}

\* Traversal order of the hit map (an unordered map): ascending or descending
HitOrder(descending, S) == IF descending THEN Reverse(SortedSeq(S)) ELSE SortedSeq(S)

\* Outcome of the step up to the creation of the loads.
\* cfg = [cosim, bulldozing, soil, soil_fun, boundary]
ContactResult(grid_reset, cfg, rc, ps, st) ==
    [grid |-> st.grid, modified |-> st.modified, body_forces |-> st.body_forces,
     node_forces |-> st.node_forces,
     loads |-> CreateLoads(st.loads, st.body_forces, st.node_forces, cfg.cosim),
     grid_reset |-> grid_reset, grid_contact |-> st.grid, hit_cells |-> DOMAIN ps.hits,
     patches |-> ps.patches, trial |-> st.trial,
     num_ray_casts |-> rc.num_ray_casts, num_ray_hits |-> rc.num_ray_hits,
     num_contact_patches |-> ps.num, num_erosion_nodes |-> 0]

\* Compute contact forces
AfterPatches(grid_reset, cfg, world, rc, order, ps) ==
    ContactResult(grid_reset, cfg, rc, ps,
        ProcessHits([grid |-> rc.grid, modified |-> <<>>, body_forces |-> EmptyMap,
                     node_forces |-> EmptyMap, loads |-> <<>>, soil |-> cfg.soil,
                     trial |-> EmptyMap],
                    ps.hits, PatchOobs(ps.patches), order, 1, cfg.soil_fun, cfg.cosim, world))

\* Find contact patches
AfterRayCasting(grid_reset, cfg, world, rc, order) ==
    AfterPatches(grid_reset, cfg, world, rc, order,
                 FindContactPatches([hits |-> rc.hits, patches |-> <<>>, num |-> 0], order, 1))

\* The loops over the hit map take its traversal order
AfterMerge(grid_reset, cfg, world, rc, descending) ==
    AfterRayCasting(grid_reset, cfg, world, rc, HitOrder(descending, DOMAIN rc.hits))

\* Ray casting over the default active domain
AfterReset(grid_reset, cfg, world, range, descending) ==
    AfterMerge(grid_reset, cfg, world,
               RayCasting(grid_reset, cfg.boundary, world, range, StaticShare(range)),
               descending)

\* Reset, ray casting, contact patches and contact forces
ContactStage(grid0, modified0, cfg, world, descending) ==
    AfterReset(ResetModifiedNodes(grid0, modified0), cfg, world,
               UpdateDefaultActiveDomain(world), descending)

\* Flow material to the side of the rut, if enabled
WithBulldozing(cs, bd) ==
    [cs EXCEPT !.grid = bd.grid, !.modified = bd.modified,
               !.num_erosion_nodes = bd.num_erosion_nodes]

AfterContact(cfg, cs) ==
    IF cfg.bulldozing THEN WithBulldozing(cs, Bulldozing(cs.grid, cs.modified, cs.patches))
    ELSE cs

\* The whole step
StepResult(grid0, modified0, cfg, world, descending) ==
    AfterContact(cfg, ContactStage(grid0, modified0, cfg, world, descending))

\* ------------------------------------------------------------------------
\* Checkpointing
\* ------------------------------------------------------------------------
NodeLevels(grid, cells) == [k \in 1..Len(cells) |-> <<cells[k], grid[cells[k]].level>>]

GetModifiedNodes(grid, modified, all_nodes) ==
    IF all_nodes THEN NodeLevels(grid, SortedSeq(DOMAIN grid)) ELSE NodeLevels(grid, modified)

\* A node with the given level, set without the record constructor: an
\* existing record keeps its other fields, a new one starts at the initial height
SetLevelOnly(grid, n) ==
    PutNode(grid, n[1], [NodeOrNew(grid, n[1]) EXCEPT !.level = n[2]])

\* Modify existing entry in grid map or insert new one
SetNode(grid, n) == PutNode(grid, n[1], NodeRecord(n[2], n[2], GetInitNormal(n[1])))

\* The loop over the given list
RECURSIVE SetNodes(_, _)
SetNodes(grid, nodes) ==
    IF nodes = <<>> THEN grid ELSE SetNodes(SetNode(grid, Head(nodes)), Tail(nodes))

\* The store cleared before the nodes of the list are set
ClearAndSetNodes(grid, nodes) == SetNodes(EmptyMap, nodes)

SetModifiedNodes(grid, nodes) == SetNodes(grid, nodes)

\* ------------------------------------------------------------------------
\* Grid bounds, base heights and visualization mesh
\* ------------------------------------------------------------------------
CheckMeshBounds(loc) ==
    loc[1] >= -m_nx /\ loc[1] <= m_nx /\ loc[2] >= -m_ny /\ loc[2] <= m_ny

\* Index of the mesh vertex of a grid vertex; the call is recorded with its cell
GetMeshVertexIndex(loc) ==
    [ij |-> loc, iv |-> (loc[1] + m_nx) + (2 * m_nx + 1) * (loc[2] + m_ny)]

ChClamp(value, lo, hi) == IF value < lo THEN lo ELSE IF value > hi THEN hi ELSE value

\* Row and column of m_heights read by GetInitHeight for a height map
HeightIndex(loc) ==
    <<ChClamp(loc[1], -m_nx, m_nx) + m_nx, ChClamp(loc[2], -m_ny, m_ny) + m_ny>>

\* The vertex index taken for every listed cell, inside the mesh or not
VerticesUnchecked(cells) == [k \in 1..Len(cells) |-> GetMeshVertexIndex(cells[k])]

\* The vertex index taken for the listed cells that pass CheckMeshBounds
VerticesInMesh(cells) ==
    [k \in 1..Len(SelectSeq(cells, CheckMeshBounds)) |->
        GetMeshVertexIndex(SelectSeq(cells, CheckMeshBounds)[k])]

\* Mesh vertices updated by the start-of-step reset, the end-of-step update
\* and SetModifiedNodes
ResetVertices(trimesh_shape, modified) ==
    IF trimesh_shape THEN VerticesInMesh(modified) ELSE <<>>

StepVertices(trimesh_shape, modified) ==
    IF trimesh_shape THEN VerticesInMesh(modified) ELSE <<>>

SetNodesVertices(trimesh_shape, nodes) ==
    IF trimesh_shape THEN VerticesInMesh([k \in 1..Len(nodes) |-> nodes[k][1]]) ELSE <<>>
\* ------------------------------------------------------------------------
\* State
\* ------------------------------------------------------------------------
VARIABLES
    m_grid_map,            \* node store: cell -> NodeRecord
    m_modified_nodes,      \* cells modified over the current step
    m_body_forces,         \* rigid body -> <<force, torque>>
    m_node_forces,         \* FEA node -> force
    load_list,             \* ChLoadContainer::GetLoadList()
    m_cosim_mode,
    m_bulldozing,
    m_soil,                \* m_Bekker_Kphi ... m_damping_R
    m_soil_fun,            \* registered callback or Nil
    m_boundary,            \* [enabled |-> m_boundary, min, max |-> m_aabb]
    counters,              \* m_num_ray_casts, m_num_ray_hits, m_num_contact_patches, ...
    fresh_grid_map,        \* node store of a second, fresh terrain fed by a checkpoint
    last,                  \* record of the last operation (history)
    par,                   \* the parallel ray-casting loop, worker by worker
    seg,                   \* a run of the contact patch search on a given hit map
    mat,                   \* a material transfer run on given node records
    m_active_domains,      \* bodies of the active domains, Nil for the default one
    m_user_domains,
    is_initialized,        \* TRUE once the system has called SetupInitial
    m_trimesh_shape,       \* TRUE iff the terrain has a visualization mesh
    m_external_modified_vertices,
    modified_vertices,     \* mesh vertices updated by the last step, with their cells
    nsteps, nsetup, nrestore

vars == <<m_grid_map, m_modified_nodes, m_body_forces, m_node_forces, load_list,
          m_cosim_mode, m_bulldozing, m_soil, m_soil_fun, m_boundary, counters,
          fresh_grid_map, last, par, seg, mat, m_active_domains, m_user_domains,
          is_initialized,
          m_trimesh_shape, m_external_modified_vertices, modified_vertices,
          nsteps, nsetup, nrestore>>

domains == <<m_active_domains, m_user_domains, is_initialized>>
mesh == <<m_trimesh_shape, m_external_modified_vertices, modified_vertices>>

config == <<m_cosim_mode, m_bulldozing, m_soil, m_soil_fun, m_boundary>>
stepstate == <<m_grid_map, m_modified_nodes, m_body_forces, m_node_forces, load_list,
               counters>>

NoLoop == [phase |-> "idle"]
NoSearch == [done |-> FALSE]
NoTransfer == [op |-> "none"]

\* The terrain as constructed, with or without a visualization mesh
Constructed(visualization_mesh) ==
    /\ m_grid_map = EmptyMap
    /\ m_modified_nodes = <<>>
    /\ m_body_forces = EmptyMap
    /\ m_node_forces = EmptyMap
    /\ load_list = <<>>
    /\ m_cosim_mode = FALSE
    /\ m_bulldozing = FALSE
    /\ m_soil = DefaultSoil
    /\ m_soil_fun = Nil
    /\ m_boundary = [enabled |-> FALSE, min |-> <<0, 0>>, max |-> <<0, 0>>]
    /\ counters = [num_ray_casts |-> 0, num_ray_hits |-> 0, num_contact_patches |-> 0,
                   num_erosion_nodes |-> 0]
    /\ fresh_grid_map = EmptyMap
    /\ last = [op |-> "construct"]
    /\ par = NoLoop
    /\ seg = NoSearch
    /\ mat = NoTransfer
    /\ m_active_domains = <<>>
    /\ m_user_domains = FALSE
    /\ is_initialized = FALSE
    /\ m_trimesh_shape = visualization_mesh
    /\ m_external_modified_vertices = <<>>
    /\ modified_vertices = <<>>
    /\ nsteps = 0
    /\ nsetup = 0
    /\ nrestore = 0

Init == Constructed(FALSE)
InitMesh == Constructed(TRUE)

CurrentConfig ==
    [cosim |-> m_cosim_mode, bulldozing |-> m_bulldozing, soil |-> m_soil,
     soil_fun |-> m_soil_fun, boundary |-> m_boundary]

\* Setup(): ComputeInternalForces against the collision world of this step
ComputeInternalForces(world, descending) ==
    /\ nsteps < MaxSteps
    /\ \E r \in {StepResult(m_grid_map, m_modified_nodes, CurrentConfig, world, descending)} :
         /\ nsteps' = nsteps + 1
         /\ m_grid_map' = r.grid
         /\ m_modified_nodes' = r.modified
         /\ m_body_forces' = r.body_forces
         /\ m_node_forces' = r.node_forces
         /\ load_list' = r.loads
         /\ counters' = [num_ray_casts |-> r.num_ray_casts,
                         num_ray_hits |-> r.num_ray_hits,
                         num_contact_patches |-> r.num_contact_patches,
                         num_erosion_nodes |-> r.num_erosion_nodes]
         /\ last' = [op |-> "step", world |-> world, grid_reset |-> r.grid_reset,
                     grid_contact |-> r.grid_contact, hit_cells |-> r.hit_cells,
                     trial |-> r.trial]
         /\ m_external_modified_vertices' = <<>>
         /\ modified_vertices' = m_external_modified_vertices
                                    \o ResetVertices(m_trimesh_shape, m_modified_nodes)
                                    \o StepVertices(m_trimesh_shape, r.modified)
         /\ UNCHANGED <<config, fresh_grid_map, par, seg, nsetup, nrestore,
                        mat, domains, m_trimesh_shape>>

Step == \E world \in Worlds : ComputeInternalForces(world, FALSE)

\* The terrain is configured before the first step
SetCosimulationMode(val) ==
    /\ nsteps = 0
    /\ nsetup < MaxSetup
    /\ nsetup' = nsetup + 1
    /\ m_cosim_mode' = val
    /\ UNCHANGED <<stepstate, m_bulldozing, m_soil, m_soil_fun, m_boundary, fresh_grid_map,
                   last, par, seg, nsteps, nrestore,
                   mat, domains, mesh>>

EnableBulldozing(val) ==
    /\ nsteps = 0
    /\ nsetup < MaxSetup
    /\ nsetup' = nsetup + 1
    /\ m_bulldozing' = val
    /\ UNCHANGED <<stepstate, m_cosim_mode, m_soil, m_soil_fun, m_boundary, fresh_grid_map,
                   last, par, seg, nsteps, nrestore,
                   mat, domains, mesh>>

SetSoilParameters(a) ==
    /\ nsteps = 0
    /\ nsetup < MaxSetup
    /\ nsetup' = nsetup + 1
    /\ m_soil' = SetSoilParametersResult(a)
    /\ UNCHANGED <<stepstate, m_cosim_mode, m_bulldozing, m_soil_fun, m_boundary,
                   fresh_grid_map, last, par, seg, nsteps, nrestore,
                   mat, domains, mesh>>

RegisterSoilParametersCallback(cb) ==
    /\ nsteps = 0
    /\ nsetup < MaxSetup
    /\ nsetup' = nsetup + 1
    /\ m_soil_fun' = cb
    /\ UNCHANGED <<stepstate, m_cosim_mode, m_bulldozing, m_soil, m_boundary,
                   fresh_grid_map, last, par, seg, nsteps, nrestore,
                   mat, domains, mesh>>

Next ==
    \/ Step
    \/ SetCosimulationMode(TRUE)
    \/ EnableBulldozing(TRUE)
    \/ \E a \in SoilArgs : SetSoilParameters(a)
    \/ RegisterSoilParametersCallback("by_location")

Spec == Init /\ [][Next]_vars


\* ------------------------------------------------------------------------
\* Checkpointing between steps
\* ------------------------------------------------------------------------
\* Lists handed to SetModifiedNodes by an embedder: an existing or new cell,
\* and a list with a cell far from the indenters
NodeLists ==
    { << <<<<0, 0>>, -50>> >>,
      << <<<<-1, 0>>, -100>>, <<<<2, 3>>, 30>> >> }

\* SetModifiedNodes(nodes) on this terrain
SetModifiedNodesCall(nodes) ==
    /\ nrestore < MaxRestore
    /\ nrestore' = nrestore + 1
    /\ m_grid_map' = SetModifiedNodes(m_grid_map, nodes)
    /\ last' = [op |-> "set_nodes", nodes |-> nodes]
    /\ m_external_modified_vertices' =
          m_external_modified_vertices \o SetNodesVertices(m_trimesh_shape, nodes)
    /\ UNCHANGED <<m_modified_nodes, m_body_forces, m_node_forces, load_list, counters,
                   config, fresh_grid_map, par, seg, nsteps, nsetup,
                   mat, domains, m_trimesh_shape, modified_vertices>>

\* A checkpoint: the list returned by GetModifiedNodes(true) on this terrain
\* is given to SetModifiedNodes on a newly constructed terrain
Checkpoint ==
    /\ nrestore < MaxRestore
    /\ nsteps > 0
    /\ \E nodes \in {GetModifiedNodes(m_grid_map, m_modified_nodes, TRUE)} :
         /\ nrestore' = nrestore + 1
         /\ fresh_grid_map' = SetModifiedNodes(EmptyMap, nodes)
         /\ last' = [op |-> "checkpoint", nodes |-> nodes]
         /\ UNCHANGED <<stepstate, config, par, seg, nsteps, nsetup,
                   mat, domains, mesh>>

\* Steps of a pressed indenter
StepPressing == \E world \in Pressing : ComputeInternalForces(world, FALSE)

NextRestore ==
    \/ StepPressing
    \/ EnableBulldozing(TRUE)
    \/ \E nodes \in NodeLists : SetModifiedNodesCall(nodes)
    \/ Checkpoint

SpecRestore == Init /\ [][NextRestore]_vars

\* ------------------------------------------------------------------------
\* The contact patch search on its own: any hit map of up to MaxHits cells
\* of a 3 x 3 window, traversed in any order
\* ------------------------------------------------------------------------
Window == (0..2) \X (0..2)
HitSets == {S \in SUBSET Window : Cardinality(S) <= MaxHits}

\* The orders in which an unordered map over the cells S can be iterated
Traversals(S) ==
    {f \in [1..Cardinality(S) -> S] : \A i, j \in 1..Cardinality(S) : f[i] = f[j] => i = j}

\* The hit map after ray casting: no hit is assigned to a patch yet
HitMap(S) ==
    [ij \in S |-> [contactable |-> ContactableAt(ij),
                   abs_point |-> <<ij[1] * m_delta, ij[2] * m_delta, 0>>, patch_id |-> -1]]

SearchResult(order, ps) ==
    [done |-> TRUE, order |-> order, hits |-> ps.hits, patches |-> ps.patches,
     num_contact_patches |-> ps.num]

\* The loop through all hit nodes, for the hit map over S traversed in order
FindPatches(S, order) ==
    /\ ~seg.done
    /\ seg' = SearchResult(order,
                  FindContactPatches([hits |-> HitMap(S), patches |-> <<>>, num |-> 0],
                                     order, 1))
    /\ UNCHANGED <<stepstate, config, fresh_grid_map, last, par, nsteps, nsetup, nrestore,
                   mat, domains, mesh>>

NextSeg == \E S \in HitSets : \E order \in Traversals(S) : FindPatches(S, order)

SpecSeg == Init /\ [][NextSeg]_vars

\* ------------------------------------------------------------------------
\* The step with its parallel ray-casting loop run iteration by iteration.
\* The schedule of the loop is not fixed: any thread may run any iteration
\* that has not run yet.
\* ------------------------------------------------------------------------
Threads == 1..NumThreads
CastWorlds == {w \in Pressing : w.z = -100}

\* Start of ComputeInternalForces up to the entry in the parallel loop
BeginRayCasting(world) ==
    /\ par.phase # "casting"
    /\ nsteps < MaxSteps
    /\ m_grid_map' = ResetModifiedNodes(m_grid_map, m_modified_nodes)
    /\ m_modified_nodes' = <<>>
    /\ load_list' = <<>>
    /\ m_body_forces' = EmptyMap
    /\ m_node_forces' = EmptyMap
    /\ counters' = [counters EXCEPT !.num_ray_casts = 0, !.num_ray_hits = 0]
    /\ par' = [phase |-> "casting", world |-> world,
               range |-> UpdateDefaultActiveDomain(world), ran |-> {}, t_num |-> 0,
               hits |-> EmptyMap,
               t_hits |-> [t \in Threads |-> EmptyMap],
               num_ray_casts |-> [t \in Threads |-> 0]]
    /\ m_external_modified_vertices' = <<>>
    /\ modified_vertices' = m_external_modified_vertices
                               \o ResetVertices(m_trimesh_shape, m_modified_nodes)
    /\ UNCHANGED <<config, fresh_grid_map, last, seg, nsteps, nsetup, nrestore,
                   mat, domains, m_trimesh_shape>>

\* The hit map written by the worker t_num: its own thread-local map
\* (a shared first map is written instead)
InsertSharedHit(t_hits, t_num, ij, record) == [t_hits EXCEPT ![1] = MapInsert(@, ij, record)]

\* t_hits[t_num].insert(std::make_pair(ij, record))
InsertThreadHit(t_hits, t_num, ij, record) ==
    [t_hits EXCEPT ![t_num] = MapInsert(@, ij, record)]

\* The loop state after the worker t_num ran iteration k with outcome c
AfterCast(loop, t_num, k, c) ==
    [loop EXCEPT !.ran = @ \cup {k}, !.t_num = t_num,
                 !.num_ray_casts[t_num] = IF c.cast THEN @ + 1 ELSE @,
                 !.t_hits = IF c.hit THEN InsertThreadHit(@, t_num, loop.range[k], c.record)
                            ELSE @]

\* One iteration of the parallel loop, run by the worker t_num
CastRay(t_num) ==
    /\ par.phase = "casting"
    /\ \E k \in (1..Len(par.range)) \ par.ran :
          par' = AfterCast(par, t_num, k,
                           RayCastCell(m_grid_map, m_boundary, par.world, par.range[k]))
    /\ UNCHANGED <<stepstate, config, fresh_grid_map, last, seg, nsteps, nsetup, nrestore,
                   mat, domains, mesh>>

RECURSIVE SumCasts(_, _)
SumCasts(num_ray_casts, t) ==
    IF t > NumThreads THEN 0 ELSE num_ray_casts[t] + SumCasts(num_ray_casts, t + 1)

\* The reduction of the cast counts and the sequential insertion in global hits
MergeLoop(grid, loop) ==
    RayCastResult([merged |-> MergeThreadHits(grid, loop.hits, loop.t_hits, 1),
                   num_ray_casts |-> SumCasts(loop.num_ray_casts, 1)])

MergedLoop(loop, rc) == [phase |-> "merged", world |-> loop.world, hits |-> rc.hits]

\* End of the parallel loop and the rest of ComputeInternalForces
FinishStep(world, grid_reset, rc, r) ==
    /\ nsteps' = nsteps + 1
    /\ m_grid_map' = r.grid
    /\ m_modified_nodes' = r.modified
    /\ m_body_forces' = r.body_forces
    /\ m_node_forces' = r.node_forces
    /\ load_list' = r.loads
    /\ counters' = [num_ray_casts |-> r.num_ray_casts, num_ray_hits |-> r.num_ray_hits,
                    num_contact_patches |-> r.num_contact_patches,
                    num_erosion_nodes |-> r.num_erosion_nodes]
    /\ last' = [op |-> "step", world |-> world, grid_reset |-> grid_reset,
                grid_contact |-> r.grid_contact, hit_cells |-> r.hit_cells,
                trial |-> r.trial]
    /\ par' = MergedLoop(par, rc)
    /\ modified_vertices' = modified_vertices \o StepVertices(m_trimesh_shape, r.modified)
    /\ UNCHANGED <<config, fresh_grid_map, seg, nsetup, nrestore,
                   mat, domains, m_trimesh_shape, m_external_modified_vertices>>

MergeAndFinish ==
    /\ par.phase = "casting"
    /\ par.ran = 1..Len(par.range)
    /\ \E rc \in {MergeLoop(m_grid_map, par)} :
       \E r \in {AfterContact(CurrentConfig,
                              AfterMerge(m_grid_map, CurrentConfig, par.world, rc, FALSE))} :
          FinishStep(par.world, m_grid_map, rc, r)

NextPar ==
    \/ \E world \in CastWorlds : BeginRayCasting(world)
    \/ \E t_num \in Threads : CastRay(t_num)
    \/ MergeAndFinish

SpecPar == Init /\ [][NextPar]_vars
\* ------------------------------------------------------------------------
\* AddMaterialToNode and RemoveMaterialFromNode on their own: one call on a
\* node record whose level is not above its hit_level
\* ------------------------------------------------------------------------
MaterialLevels == {-100, 0}
MaterialHitLevels == {0, 50, NoHit}
MaterialRemainders == {0, 10, 30}
AddAmounts == {-10, 0, 10, 60, 200}
RemoveAmounts == {5, 10, 20}

MaterialNode(level, hit_level, massremainder) ==
    [NodeRecord(level, level, GetInitNormal(<<0, 0>>))
        EXCEPT !.hit_level = hit_level, !.massremainder = massremainder]

MaterialNodes ==
    {MaterialNode(l, h, r) : l \in MaterialLevels, h \in MaterialHitLevels,
                             r \in MaterialRemainders}

AddMaterialCall(amount, nr) ==
    /\ mat.op = "none"
    /\ mat' = [op |-> "add", amount |-> amount, before |-> nr,
               after |-> AddMaterialToNode(amount, nr)]
    /\ UNCHANGED <<stepstate, config, fresh_grid_map, last, par, seg, domains, mesh,
                   nsteps, nsetup, nrestore>>

RemoveMaterialCall(amount, nr) ==
    /\ mat.op = "none"
    /\ mat' = [op |-> "remove", amount |-> amount, before |-> nr,
               after |-> RemoveMaterialFromNode(amount, nr)]
    /\ UNCHANGED <<stepstate, config, fresh_grid_map, last, par, seg, domains, mesh,
                   nsteps, nsetup, nrestore>>

NextMaterial ==
    \/ \E nr \in MaterialNodes, amount \in AddAmounts : AddMaterialCall(amount, nr)
    \/ \E nr \in MaterialNodes, amount \in RemoveAmounts : RemoveMaterialCall(amount, nr)

SpecMaterial == Init /\ [][NextMaterial]_vars

\* ------------------------------------------------------------------------
\* Shallow contact followed by unloading: indenters pressed 50 mm into the
\* soil, then met again at or above the undeformed surface
\* ------------------------------------------------------------------------
Shallow == [footprint : Footprints, z : {-50}, speed : {<<1, 0, -1>>}]

StepRecontact == \E world \in Shallow \cup Lifting : ComputeInternalForces(world, FALSE)

NextRecontact ==
    \/ StepRecontact
    \/ \E a \in SoilArgs : SetSoilParameters(a)
    \/ RegisterSoilParametersCallback("by_location")

SpecRecontact == Init /\ [][NextRecontact]_vars

\* ------------------------------------------------------------------------
\* Terrain patch boundary
\* ------------------------------------------------------------------------
\* (x, y) corners of the boxes passed to SetBoundary, in mm
Boxes ==
    { [min |-> <<-100, 0>>, max |-> <<-100, 100>>],
      [min |-> <<0, 0>>, max |-> <<100, 0>>],
      [min |-> <<100, 100>>, max |-> <<-100, -100>>] }

\* ChAABB::IsInverted
IsInverted(aabb) == aabb.min[1] > aabb.max[1] \/ aabb.min[2] > aabb.max[2]

SetBoundary(aabb) ==
    /\ nsetup < MaxSetup
    /\ nsetup' = nsetup + 1
    /\ m_boundary' = IF IsInverted(aabb) THEN m_boundary
                     ELSE [enabled |-> TRUE, min |-> aabb.min, max |-> aabb.max]
    /\ UNCHANGED <<stepstate, m_cosim_mode, m_bulldozing, m_soil, m_soil_fun,
                   fresh_grid_map, last, par, seg, mat, domains, mesh, nsteps, nrestore>>

NextBoundary ==
    \/ Step
    \/ \E aabb \in Boxes : SetBoundary(aabb)
    \/ EnableBulldozing(TRUE)

SpecBoundary == Init /\ [][NextBoundary]_vars

\* ------------------------------------------------------------------------
\* Queries of the accumulated contact forces
\* ------------------------------------------------------------------------
\* The contactable reported as found whether or not it has an entry
GetContactForceBodyUnchecked(body_forces, body) ==
    [found |-> TRUE,
     force |-> IF body \in DOMAIN body_forces THEN body_forces[body][1] ELSE VNULL,
     torque |-> IF body \in DOMAIN body_forces THEN body_forces[body][2] ELSE VNULL]

\* GetContactForceBody(body, force, torque): the return value and the outputs
GetContactForceBody(body_forces, body) ==
    IF body \notin DOMAIN body_forces
    THEN [found |-> FALSE, force |-> VNULL, torque |-> VNULL]
    ELSE [found |-> TRUE, force |-> body_forces[body][1], torque |-> body_forces[body][2]]

\* ------------------------------------------------------------------------
\* A terrain constructed with a visualization mesh
\* ------------------------------------------------------------------------
SpecMesh == InitMesh /\ [][NextRestore]_vars

\* ------------------------------------------------------------------------
\* Active domains: AddActiveDomain, SetupInitial and the steps, in any order
\* that has the system set up before it steps
\* ------------------------------------------------------------------------
\* The monitored body of an active domain; its box encloses the indenter
AddActiveDomain(body) ==
    /\ Len(m_active_domains) < MaxDomains
    /\ m_active_domains' = Append(m_active_domains, body)
    /\ m_user_domains' = TRUE
    /\ UNCHANGED <<stepstate, config, fresh_grid_map, last, par, seg, mat, is_initialized,
                   mesh, nsteps, nsetup, nrestore>>

SetupInitial ==
    /\ ~is_initialized
    /\ is_initialized' = TRUE
    /\ m_active_domains' = IF ~m_user_domains THEN Append(m_active_domains, Nil)
                           ELSE m_active_domains
    /\ UNCHANGED <<stepstate, config, fresh_grid_map, last, par, seg, mat, m_user_domains,
                   mesh, nsteps, nsetup, nrestore>>

\* The domains whose update reads the frame of a null body
NullDomains(active_domains) ==
    {k \in 1..Len(active_domains) : active_domains[k] = Nil}

\* The step stopped by the null dereference in UpdateActiveDomain: the reset
\* and the clearing of the loads and accumulators have been done
AbortedStep(world) ==
    /\ nsteps' = nsteps + 1
    /\ m_grid_map' = ResetModifiedNodes(m_grid_map, m_modified_nodes)
    /\ m_modified_nodes' = <<>>
    /\ m_body_forces' = EmptyMap
    /\ m_node_forces' = EmptyMap
    /\ load_list' = <<>>
    /\ last' = [op |-> "aborted", world |-> world]
    /\ m_external_modified_vertices' = <<>>
    /\ modified_vertices' = m_external_modified_vertices
                               \o ResetVertices(m_trimesh_shape, m_modified_nodes)
    /\ UNCHANGED <<counters, config, fresh_grid_map, par, seg, mat, domains, m_trimesh_shape,
                   nsetup, nrestore>>

\* The step over num_domains active domains, each of which encloses the
\* indenter: the rays of every domain are cast and the hits are merged
StepOverDomains(world, num_domains) ==
    /\ \E r \in {StepResult(m_grid_map, m_modified_nodes, CurrentConfig, world, FALSE)} :
         /\ nsteps' = nsteps + 1
         /\ m_grid_map' = r.grid
         /\ m_modified_nodes' = r.modified
         /\ m_body_forces' = r.body_forces
         /\ m_node_forces' = r.node_forces
         /\ load_list' = r.loads
         /\ counters' = [num_ray_casts |-> num_domains * r.num_ray_casts,
                         num_ray_hits |-> r.num_ray_hits,
                         num_contact_patches |-> r.num_contact_patches,
                         num_erosion_nodes |-> r.num_erosion_nodes]
         /\ last' = [op |-> "step", world |-> world, grid_reset |-> r.grid_reset,
                     grid_contact |-> r.grid_contact, hit_cells |-> r.hit_cells,
                     trial |-> r.trial]
         /\ m_external_modified_vertices' = <<>>
         /\ modified_vertices' = m_external_modified_vertices
                                    \o ResetVertices(m_trimesh_shape, m_modified_nodes)
                                    \o StepVertices(m_trimesh_shape, r.modified)
         /\ UNCHANGED <<config, fresh_grid_map, par, seg, nsetup, nrestore,
                        mat, domains, m_trimesh_shape>>

\* ComputeInternalForces with the active domains of the terrain. Updating a
\* domain without a body dereferences a null pointer: the step either stops
\* there or goes on with whatever range the update left
StepWithDomains(world) ==
    /\ is_initialized
    /\ nsteps < MaxSteps
    /\ IF m_user_domains /\ NullDomains(m_active_domains) # {}
       THEN AbortedStep(world) \/ StepOverDomains(world, Len(m_active_domains))
       ELSE StepOverDomains(world, Len(m_active_domains))

NextDomains ==
    \/ AddActiveDomain("body1")
    \/ SetupInitial
    \/ \E world \in Pressing : StepWithDomains(world)

SpecDomains == Init /\ [][NextDomains]_vars

\* ------------------------------------------------------------------------
\* Steps with bulldozing, over indenters that make one patch, two patches
\* apart and two patches with a common neighbour
\* ------------------------------------------------------------------------
Split == {<<-1, 0>>, <<1, 0>>}
Ploughing == [footprint : {Block, Apart, Split}, z : {-200, -100}, speed : {<<1, 0, -1>>}]

StepPloughing == \E world \in Ploughing \cup Lifting : ComputeInternalForces(world, FALSE)

NextBulldozing ==
    \/ StepPloughing
    \/ \E val \in BOOLEAN : EnableBulldozing(val)

SpecBulldozing == Init /\ [][NextBulldozing]_vars

\* ------------------------------------------------------------------------
\* Vertex normals of the visualization mesh (not in wireframe mode)
\* ------------------------------------------------------------------------
\* Indices of the mesh faces incident to a grid vertex
GetMeshFaceIndices(loc) ==
    IF loc[1] = -m_nx \/ loc[1] = m_nx \/ loc[2] = -m_ny \/ loc[2] = m_ny THEN <<>>
    ELSE LET i == loc[1] + m_nx
             j == loc[2] + m_ny
             nx == 2 * m_nx
         IN <<2 * ((i - 1) + nx * (j - 1)), 2 * ((i - 1) + nx * (j - 1)) + 1,
              2 * ((i - 1) + nx * j), 2 * (i + nx * j), 2 * (i + nx * j) + 1,
              2 * (i + nx * (j - 1)) + 1>>

\* UpdateMeshVertexNormal: the faces summed and the divisor of the average
UpdateMeshVertexNormal(ij) ==
    [ij |-> ij, faces |-> GetMeshFaceIndices(ij), divisor |-> Len(GetMeshFaceIndices(ij))]

\* The normal updates of the visualization loop over the modified nodes
NormalUpdates(trimesh_shape, modified) ==
    IF trimesh_shape
    THEN {UpdateMeshVertexNormal(ij) : ij \in SeqToSet(SelectSeq(modified, CheckMeshBounds))}
    ELSE {}

\* ------------------------------------------------------------------------
\* Steps over the active domains with indenters in and out of ray reach
\* ------------------------------------------------------------------------
NextCounters ==
    \/ AddActiveDomain("body1")
    \/ SetupInitial
    \/ \E world \in Worlds : StepWithDomains(world)

SpecCounters == Init /\ [][NextCounters]_vars

\* ------------------------------------------------------------------------
\* Properties of a step
\* ------------------------------------------------------------------------
StepTaken == last.op = "step"
Hits == DOMAIN last.trial

\* The collision system reports no hit for the ray of cell ij in the last step
Missed(ij) ==
    ~RayHit(last.world, ij, RayFrom(last.grid_reset, ij), RayTo(last.grid_reset, ij)).hit

\* C1: at the end of every step each node record has
\* sinkage = sinkage_elastic + sinkage_plastic, including the nodes of an
\* earlier contact that the step reset and did not touch again
C1_SinkageSplit ==
    \A ij \in DOMAIN m_grid_map :
        m_grid_map[ij].sinkage = m_grid_map[ij].sinkage_elastic + m_grid_map[ij].sinkage_plastic

\* C2: after every step the pressure sigma of each node record is >= 0
C2_SigmaNonNegative == \A ij \in DOMAIN m_grid_map : m_grid_map[ij].sigma >= 0

\* C3: no step lowers the yield pressure sigma_yield of a node record
C3_YieldMonotone ==
    [][\A ij \in DOMAIN m_grid_map :
          m_grid_map'[ij].sigma_yield >= m_grid_map[ij].sigma_yield]_vars

\* C4 as stated: with bulldozing disabled the modified list has one entry per
\* hit cell whose elastic-trial pressure was positive
C4_ModifiedArePositiveTrials ==
    (StepTaken /\ ~m_bulldozing) =>
        Len(m_modified_nodes) = Cardinality({ij \in Hits : last.trial[ij] > 0})

\* C4 amended: with bulldozing disabled the modified list holds exactly the
\* hit cells whose elastic-trial pressure was not negative, once each; a hit
\* cell with a negative trial pressure is not marked, keeps sigma = 0, and a
\* step without a marked cell accumulates no force and emits no load
C4_ModifiedAreNonNegativeTrials ==
    (StepTaken /\ ~m_bulldozing) =>
        /\ Len(m_modified_nodes) = Cardinality({ij \in Hits : last.trial[ij] >= 0})
        /\ SeqToSet(m_modified_nodes) = {ij \in Hits : last.trial[ij] >= 0}
        /\ \A ij \in Hits : last.trial[ij] < 0 => m_grid_map[ij].sigma = 0
        /\ (\A ij \in Hits : last.trial[ij] < 0) =>
              m_body_forces = EmptyMap /\ m_node_forces = EmptyMap /\ load_list = <<>>

\* a step that marked a cell with zero trial pressure and left a cell with a
\* negative one unmarked
C4_Witness ==
    /\ StepTaken /\ ~m_bulldozing
    /\ \E ij \in Hits : last.trial[ij] = 0 /\ ij \in SeqToSet(m_modified_nodes)
    /\ \E ij \in Hits : last.trial[ij] < 0

\* C5: with bulldozing disabled a cell whose ray reports no hit gets no record
\* and an existing record of it keeps every field it had after the reset; a
\* step without hits on a fresh terrain leaves the store empty and counts no hit
C5_MissMutatesNothing ==
    (StepTaken /\ ~m_bulldozing) =>
        /\ \A ij \in DOMAIN m_grid_map \cup SeqToSet(UpdateDefaultActiveDomain(last.world)) :
              Missed(ij) =>
                 /\ ij \in DOMAIN m_grid_map <=> ij \in DOMAIN last.grid_reset
                 /\ ij \in DOMAIN m_grid_map => m_grid_map[ij] = last.grid_reset[ij]
        /\ (DOMAIN last.grid_reset = {} /\ \A ij \in last.world.footprint : Missed(ij)) =>
              DOMAIN m_grid_map = {} /\ counters.num_ray_hits = 0

\* a step in which the ray of a sunk node inside the active domain missed
\* while other rays hit
C5_Witness ==
    /\ StepTaken /\ ~m_bulldozing /\ Hits # {}
    /\ \E ij \in DOMAIN m_grid_map \cap SeqToSet(UpdateDefaultActiveDomain(last.world)) :
          Missed(ij) /\ m_grid_map[ij].sinkage > 0

\* ------------------------------------------------------------------------
\* Properties of checkpoints and of the node store
\* ------------------------------------------------------------------------
Listed == {last.nodes[k][1] : k \in 1..Len(last.nodes)}

\* a node record with the given level and every other field at its initial value
Restored(nr, level) ==
    /\ nr.level = level /\ nr.level_initial = level
    /\ nr.hit_level = NoHit /\ nr.erosion = FALSE
    /\ nr.sinkage = 0 /\ nr.sinkage_plastic = 0 /\ nr.sinkage_elastic = 0
    /\ nr.sigma = 0 /\ nr.sigma_yield = 0 /\ nr.kshear = 0 /\ nr.tau = 0
    /\ nr.massremainder = 0 /\ nr.step_plastic_flow = 0

\* C6: GetModifiedNodes(true) lists each node record of the store once with
\* its level, and SetModifiedNodes of that list on a fresh terrain makes
\* GetHeight at each listed cell the recorded level, with level_initial = level
\* and the other fields of the node at their initial values
C6_CheckpointRoundTrip ==
    last.op = "checkpoint" =>
        /\ Len(last.nodes) = Cardinality(DOMAIN m_grid_map)
        /\ Listed = DOMAIN m_grid_map
        /\ DOMAIN fresh_grid_map = Listed
        /\ \A k \in 1..Len(last.nodes) :
              /\ last.nodes[k][2] = m_grid_map[last.nodes[k][1]].level
              /\ GetHeight(fresh_grid_map, last.nodes[k][1]) = last.nodes[k][2]
              /\ Restored(fresh_grid_map[last.nodes[k][1]], last.nodes[k][2])

\* a checkpoint of a store holding a sunk node under pressure
C6_Witness ==
    /\ last.op = "checkpoint"
    /\ \E ij \in DOMAIN m_grid_map :
          /\ m_grid_map[ij].sinkage > 0 /\ m_grid_map[ij].sigma_yield > 0
          /\ m_grid_map[ij].level # GetInitHeight(ij)
          /\ fresh_grid_map[ij].level = m_grid_map[ij].level

\* C7: no operation removes a node record: the cells of the store after a
\* step, a SetModifiedNodes call or a query include the cells before it
C7_StoreOnlyGrows == [][DOMAIN m_grid_map \subseteq DOMAIN m_grid_map']_vars

\* a store that holds records made by ray hits, by the raise of a patch
\* boundary and by SetModifiedNodes, after a further step
C7_Witness ==
    /\ m_bulldozing /\ nsteps >= 2 /\ last.op = "step"
    /\ <<2, 3>> \in DOMAIN m_grid_map
    /\ last.hit_cells # {}
    /\ \E ij \in DOMAIN m_grid_map : ij # <<2, 3>> /\ ij \notin Block \cup Apart

\* ------------------------------------------------------------------------
\* Co-simulation mode
\* ------------------------------------------------------------------------
\* The step from the current state against the given world, with the
\* co-simulation mode switched
OtherMode(world) ==
    StepResult(m_grid_map, m_modified_nodes, [CurrentConfig EXCEPT !.cosim = ~m_cosim_mode],
               world, FALSE)

SameButLoads(other) ==
    /\ other.grid = m_grid_map'
    /\ other.modified = m_modified_nodes'
    /\ other.body_forces = m_body_forces'
    /\ other.node_forces = m_node_forces'
    /\ IF m_cosim_mode THEN load_list' = <<>> ELSE other.loads = <<>>

\* C8: from the same state and world a step in co-simulation mode leaves the
\* load list empty, and its node records, modified list and body and node
\* force accumulators equal those of the step without co-simulation mode
C8_CosimOnlyLoads ==
    [][nsteps' = nsteps + 1 => \E other \in {OtherMode(last'.world)} : SameButLoads(other)]_vars

\* a step in co-simulation mode that accumulated body and node forces, on a
\* world for which the other mode emits loads
C8_Witness ==
    /\ StepTaken /\ m_cosim_mode
    /\ m_body_forces # EmptyMap /\ m_node_forces # EmptyMap /\ load_list = <<>>
    /\ \E ij \in DOMAIN m_grid_map : m_grid_map[ij].sigma > 0

\* ------------------------------------------------------------------------
\* Contact patches
\* ------------------------------------------------------------------------
\* N/S/E/W adjacency of two cells
Adjacent(a, b) == Abs(a[1] - b[1]) + Abs(a[2] - b[2]) = 1

\* The cells of S joined to a cell of C by a path of adjacent cells of S
RECURSIVE Component(_, _)
Component(S, C) ==
    IF {b \in S \ C : \E a \in C : Adjacent(a, b)} = {} THEN C
    ELSE Component(S, C \cup {b \in S \ C : \E a \in C : Adjacent(a, b)})

Components(S) == {Component(S, {a}) : a \in S}

PatchCells(k) == {seg.patches[k][i] : i \in 1..Len(seg.patches[k])}

\* C9: the patches are the 4-connected components of the hit cells: each hit
\* cell is in one patch, once; two hit cells have the same patch id iff a path
\* of N/S/E/W-adjacent hit cells joins them; the number of patches is the
\* number of components; all this for every traversal order of the hit map
C9_PatchesAreComponents ==
    seg.done =>
        /\ seg.num_contact_patches = Cardinality(Components(DOMAIN seg.hits))
        /\ Len(seg.patches) = seg.num_contact_patches
        /\ \A a \in DOMAIN seg.hits :
              /\ seg.hits[a].patch_id \in 0..(seg.num_contact_patches - 1)
              /\ \A k \in 1..Len(seg.patches) :
                    Cardinality({i \in 1..Len(seg.patches[k]) : seg.patches[k][i] = a})
                        = IF k = seg.hits[a].patch_id + 1 THEN 1 ELSE 0
              /\ \A b \in DOMAIN seg.hits :
                    seg.hits[a].patch_id = seg.hits[b].patch_id
                        <=> b \in Component(DOMAIN seg.hits, {a})
        /\ \A k \in 1..Len(seg.patches) : PatchCells(k) \subseteq DOMAIN seg.hits

\* a search that found two patches touching only at a corner, one of them of
\* more than one cell, on a traversal that is not in ascending order
C9_Witness ==
    /\ seg.done /\ seg.num_contact_patches = 2
    /\ DOMAIN seg.hits = {<<0, 0>>, <<1, 1>>, <<1, 2>>}
    /\ seg.order = << <<1, 2>>, <<0, 0>>, <<1, 1>> >>

\* ------------------------------------------------------------------------
\* The parallel ray-casting loop
\* ------------------------------------------------------------------------
\* The result the collision system gives for the ray of the cell ij of the
\* loop, cast from the node store as it is
RayOf(loop, ij) == RayHit(loop.world, ij, RayFrom(m_grid_map, ij), RayTo(m_grid_map, ij))

RayHitCells(loop) == {ij \in SeqToSet(loop.range) : RayOf(loop, ij).hit}

\* an iteration of the loop writes neither the node store nor the global hit
\* map, and no thread-local map but the one of the worker that ran it
WorkerWritesOwnMap ==
    (par.phase = "casting" /\ par'.phase = "casting") =>
        /\ m_grid_map' = m_grid_map
        /\ par'.hits = par.hits
        /\ \A t \in Threads : t # par'.t_num => par'.t_hits[t] = par.t_hits[t]

\* the merge leaves in the global hit map the record of each cell whose ray
\* hit, and nothing else
MergeHoldsEachHit ==
    (par.phase = "casting" /\ par'.phase = "merged") =>
        /\ DOMAIN par'.hits = RayHitCells(par)
        /\ \A ij \in RayHitCells(par) :
              /\ par'.hits[ij].contactable = RayOf(par, ij).contactable
              /\ par'.hits[ij].abs_point = RayOf(par, ij).abs_hitPoint
              /\ ij \in DOMAIN m_grid_map'
        /\ counters'.num_ray_hits = Cardinality(RayHitCells(par))

\* C10: during the parallel loop no worker writes the node store or the
\* global hit map, each worker inserts only in the thread-local map of its own
\* thread number, and after the merge the global hit map holds one record for
\* each cell whose ray hit, for every assignment of iterations to threads and
\* every interleaving
C10_MapReduceRayCasting == [][WorkerWritesOwnMap /\ MergeHoldsEachHit]_vars

\* the end of a loop on a store with sunk nodes in which two workers each
\* hold a hit and a ray missed
C10_Witness ==
    /\ par.phase = "casting" /\ par.ran = 1..Len(par.range) /\ nsteps >= 1
    /\ \A t \in {1, 2} : par.t_hits[t] # EmptyMap
    /\ RayHitCells(par) # SeqToSet(par.range)

\* ------------------------------------------------------------------------
\* Order of the loop on ray hits
\* ------------------------------------------------------------------------
\* The ray casting of the step that has just been taken
CastOfStep(world) ==
    RayCasting(last'.grid_reset, m_boundary, world, UpdateDefaultActiveDomain(world),
               StaticShare(UpdateDefaultActiveDomain(world)))

\* The contact stage run over the hit map rc.hits traversed in the given order
\* leaves the node records and the accumulators of the step
SameContactResult(other) ==
    /\ other.grid = last'.grid_contact
    /\ other.body_forces = m_body_forces'
    /\ other.node_forces = m_node_forces'
    /\ SeqToSet(other.modified) = {ij \in DOMAIN last'.trial : last'.trial[ij] >= 0}

OrderInvariant(world, rc) ==
    \A order \in Traversals(DOMAIN rc.hits) :
        \E other \in {AfterRayCasting(last'.grid_reset, CurrentConfig, world, rc, order)} :
            SameContactResult(other)

\* C11: for a fixed pre-step store and fixed hits, every node record and every
\* per-body and per-node accumulated force after the constitutive update is
\* the same for every traversal order of the hit map
C11_OrderInvariantUpdate ==
    [][nsteps' = nsteps + 1 =>
         \E rc \in {CastOfStep(last'.world)} : OrderInvariant(last'.world, rc)]_vars

\* a step under a location-dependent soil callback whose hits lie on both
\* sides of x = 0 and load a body and the nodes of a triangle
C11_Witness ==
    /\ StepTaken /\ m_soil_fun # Nil
    /\ \E a, b \in Hits : a[1] < 0 /\ b[1] >= 0 /\ last.trial[a] > 0 /\ last.trial[b] > 0
    /\ m_body_forces # EmptyMap /\ m_node_forces # EmptyMap

\* ------------------------------------------------------------------------
\* Material transfer on one node
\* ------------------------------------------------------------------------
\* C12: RemoveMaterialFromNode(amount > 0) lowers level + massremainder by
\* exactly amount, leaves level alone when massremainder >= amount and takes
\* only the shortfall from level and level_initial otherwise
C12_RemoveDrainsRemainder ==
    mat.op = "remove" =>
        /\ mat.after.level + mat.after.massremainder
              = mat.before.level + mat.before.massremainder - mat.amount
        /\ mat.before.massremainder >= mat.amount => mat.after.level = mat.before.level
        /\ mat.before.massremainder < mat.amount =>
              /\ mat.after.level = mat.before.level - (mat.amount - mat.before.massremainder)
              /\ mat.after.level_initial
                    = mat.before.level_initial - (mat.amount - mat.before.massremainder)

\* C13: AddMaterialToNode leaves level <= hit_level, parks in massremainder
\* what does not fit (change of level + change of massremainder = amount) and
\* changes level_initial by the same amount as level
C13_AddClampsAtHitLevel ==
    mat.op = "add" =>
        /\ mat.after.level <= mat.after.hit_level
        /\ (mat.after.level - mat.before.level)
              + (mat.after.massremainder - mat.before.massremainder) = mat.amount
        /\ mat.after.level_initial - mat.before.level_initial
              = mat.after.level - mat.before.level

\* an addition that did not fit under the hit level: the level stops at the
\* hit level and the rest is parked
C13_Witness ==
    /\ mat.op = "add" /\ mat.amount > mat.before.hit_level - mat.before.level
    /\ mat.before.level < mat.before.hit_level
    /\ mat.after.level = mat.after.hit_level
    /\ mat.after.massremainder > mat.before.massremainder

\* ------------------------------------------------------------------------
\* Levels under pure contact
\* ------------------------------------------------------------------------
\* C14: with bulldozing disabled every node record has level <= level_initial
\* after every step
C14_LevelBelowInitial ==
    ~m_bulldozing => \A ij \in DOMAIN m_grid_map : m_grid_map[ij].level <= m_grid_map[ij].level_initial

\* ------------------------------------------------------------------------
\* Terrain patch boundary
\* ------------------------------------------------------------------------
\* The cells of the active domain of the step just taken, inside and outside
\* the boundary
DomainCells == SeqToSet(UpdateDefaultActiveDomain(last'.world))
OutsideCells == {ij \in DomainCells : OutsideBoundary(m_boundary, ij)}

\* The contact stage of a step wrote nothing for the cell ij
NotTouched(ij) ==
    /\ ij \notin last'.hit_cells
    /\ ij \notin DOMAIN last'.trial
    /\ ij \in DOMAIN last'.grid_contact <=> ij \in DOMAIN last'.grid_reset
    /\ ij \in DOMAIN last'.grid_contact => last'.grid_contact[ij] = last'.grid_reset[ij]

\* C15: in a step taken with a boundary set, no ray is cast, no hit is
\* recorded and no force is accumulated for a cell outside the boundary
C15_NoForceOutsideBoundary ==
    [][(nsteps' = nsteps + 1 /\ m_boundary.enabled) =>
         /\ \A ij \in OutsideCells : NotTouched(ij)
         /\ counters'.num_ray_casts = Cardinality(DomainCells \ OutsideCells)
         /\ counters'.num_ray_hits = Cardinality(last'.hit_cells)
         /\ OutsideCells = DomainCells =>
               m_body_forces' = EmptyMap /\ m_node_forces' = EmptyMap /\ load_list' = <<>>
         /\ (\A ij \in DomainCells \ OutsideCells : ~IsChBody(ContactableAt(ij))) =>
               m_body_forces' = EmptyMap]_vars

\* a step with a boundary set in which the collision system would have
\* reported a hit for a cell outside the boundary, while a cell inside was hit
C15_Witness ==
    /\ StepTaken /\ m_boundary.enabled /\ Hits # {}
    /\ \A ij \in Hits : ~OutsideBoundary(m_boundary, ij)
    /\ \E ij \in last.world.footprint :
          OutsideBoundary(m_boundary, ij) /\ ~Missed(ij) /\ ij \notin DOMAIN m_grid_map

\* ------------------------------------------------------------------------
\* Contact force queries
\* ------------------------------------------------------------------------
\* The cells that applied a force to the rigid body in the last step
BodyCells ==
    IF StepTaken
    THEN {ij \in Hits : last.trial[ij] >= 0 /\ IsChBody(ContactableAt(ij))}
    ELSE {}

\* The force of the touched cell ij on its contactable in the last step
CellForce(ij) ==
    ContactForce(last.grid_contact[ij], ContactableAt(ij),
                 Tangent(last.world.speed, last.grid_contact[ij].normal))

RECURSIVE SumCellForces(_)
SumCellForces(cells) ==
    IF cells = {} THEN VNULL
    ELSE LET c == CHOOSE x \in cells : TRUE
         IN Vadd(CellForce(c), SumCellForces(cells \ {c}))

BodyQuery == GetContactForceBody(m_body_forces, "body1")

\* C16: GetContactForceBody returns true with the force and torque
\* accumulated in the last step iff a cell applied a force to the body in
\* that step, and false with zero force and torque otherwise; nothing
\* accumulated in an earlier step persists
C16_ForceQueryReflectsLastStep ==
    /\ BodyQuery.found <=> BodyCells # {}
    /\ ~BodyQuery.found => BodyQuery.force = VNULL /\ BodyQuery.torque = VNULL
    /\ BodyQuery.found =>
          /\ BodyQuery.force = SumCellForces(BodyCells)
          /\ BodyQuery.torque = m_body_forces["body1"][2]

\* a second step without contact on the body, after a step that loaded it:
\* the query reports no force
C16_Witness ==
    /\ StepTaken /\ nsteps = 2 /\ ~BodyQuery.found
    /\ \E ij \in DOMAIN last.grid_reset :
          IsChBody(ContactableAt(ij)) /\ last.grid_reset[ij].sigma_yield > 0

\* ------------------------------------------------------------------------
\* Cells outside the grid
\* ------------------------------------------------------------------------
\* The bound assertions of GetMeshVertexIndex hold for the recorded call
AssertionsHold(v) ==
    /\ v.ij[1] >= -m_nx /\ v.ij[1] <= m_nx /\ v.ij[2] >= -m_ny /\ v.ij[2] <= m_ny
    /\ v.iv \in 0..((2 * m_nx + 1) * (2 * m_ny + 1) - 1)

\* The cells whose base height the program reads: the recorded cells and,
\* through GetInitNormal, their four neighbors
HeightQueries == DOMAIN m_grid_map \cup UNION {Neighbors(ij) : ij \in DOMAIN m_grid_map}

\* C17: every base-height query reads the base array inside its bounds, at
\* the clamped index, and every call of GetMeshVertexIndex made by the
\* start-of-step reset, the end-of-step update and SetModifiedNodes is for a
\* cell inside the grid
C17_OutOfGridCellsSkipped ==
    /\ \A loc \in HeightQueries :
          /\ HeightIndex(loc) \in (0..(2 * m_nx)) \X (0..(2 * m_ny))
          /\ CheckMeshBounds(loc) => HeightIndex(loc) = <<loc[1] + m_nx, loc[2] + m_ny>>
    /\ \A k \in 1..Len(modified_vertices) : AssertionsHold(modified_vertices[k])
    /\ \A k \in 1..Len(m_external_modified_vertices) :
          AssertionsHold(m_external_modified_vertices[k])

\* a terrain with a mesh after a step that updated mesh vertices while a
\* node modified in that step, and one reset by it, lie outside the grid
C17_Witness ==
    /\ m_trimesh_shape /\ StepTaken /\ nsteps = 2 /\ modified_vertices # <<>>
    /\ \E k \in 1..Len(m_modified_nodes) : ~CheckMeshBounds(m_modified_nodes[k])
    /\ \E ij \in DOMAIN last.grid_reset :
          ~CheckMeshBounds(ij) /\ last.grid_reset[ij].hit_level = NoHit

\* ------------------------------------------------------------------------
\* Active domains
\* ------------------------------------------------------------------------
\* C18: at every step either no user domain was added and exactly one
\* default domain is used, or user domains are enabled and every domain of
\* the list has a body
C18_DomainsWellFormed ==
    [][nsteps' = nsteps + 1 =>
         \/ ~m_user_domains /\ m_active_domains = <<Nil>>
         \/ m_user_domains /\ NullDomains(m_active_domains) = {}]_vars

\* ------------------------------------------------------------------------
\* Ray hit level of the node records
\* ------------------------------------------------------------------------
\* C19: after every step, every node record that received no ray hit in
\* that step has hit_level equal to the no-hit sentinel
C19_HitLevelOnlyForHitCells ==
    StepTaken =>
        \A ij \in (DOMAIN m_grid_map) \ last.hit_cells :
            m_grid_map[ij].hit_level = NoHit

\* ------------------------------------------------------------------------
\* Material balance of the erosion
\* ------------------------------------------------------------------------
\* Material held by the node records of the cells: level + massremainder
RECURSIVE Material(_, _)
Material(grid, cells) ==
    IF cells = {} THEN 0
    ELSE LET ij == CHOOSE c \in cells : TRUE
         IN grid[ij].level + grid[ij].massremainder + Material(grid, cells \ {ij})

\* The state of a bulldozing step of the world when stage 3 starts
BeforeErosion(world) ==
    LET cs == ContactStage(m_grid_map, m_modified_nodes, CurrentConfig, world, FALSE)
    IN ErosionDomain(RaiseBoundaries([grid |-> cs.grid, modified |-> cs.modified,
                                      boundary |-> {}], cs.patches, 1))

ErosionConserves(ds, grid_after) ==
    /\ DOMAIN grid_after = DOMAIN ds.grid
    /\ Material(grid_after, DOMAIN grid_after) = Material(ds.grid, DOMAIN ds.grid)

\* C20: the sum over all node records of level + massremainder is the same
\* before and after stage 3 of the bulldozing
C20_ErosionConservesMaterial ==
    [][(nsteps' = nsteps + 1 /\ CurrentConfig.bulldozing) =>
         \A ds \in {BeforeErosion(last'.world)} : ErosionConserves(ds, m_grid_map')]_vars

\* ------------------------------------------------------------------------
\* Bulldozing, stage 1: raise of the patch boundaries
\* ------------------------------------------------------------------------
BulldozingStep == nsteps' = nsteps + 1 /\ m_bulldozing

\* The contact stage of the step against the world, and the state when the
\* boundaries of its patches have been raised
RaisedStage(world) ==
    LET cs == ContactStage(m_grid_map, m_modified_nodes, CurrentConfig, world, FALSE)
    IN [cs |-> cs,
        bs |-> RaiseBoundaries([grid |-> cs.grid, modified |-> cs.modified, boundary |-> {}],
                               cs.patches, 1)]

Around(ij) ==
    {<<ij[1] + 1, ij[2]>>, <<ij[1] - 1, ij[2]>>, <<ij[1], ij[2] + 1>>, <<ij[1], ij[2] - 1>>}

InContact(grid, cells) == {ij \in cells : grid[ij].sigma > 0}

NotInContact(grid, ij) == ij \notin DOMAIN grid \/ grid[ij].sigma <= 0

\* 4-neighbours of the in-contact cells of a patch that are not in contact
BoundaryOf(grid, cells) ==
    {nbr \in UNION {Around(ij) : ij \in InContact(grid, cells)} : NotInContact(grid, nbr)}

\* flow_factor * Q / |boundary| of a patch
PatchRaise(grid, cells) ==
    Quot(FlowFactor * SumFlow(grid, InContact(grid, cells)) * StepSize,
         Milli * Cardinality(BoundaryOf(grid, cells)))

\* The record of cell c after the raises of patches k, k + 1, ...
RECURSIVE RaisedBy(_, _, _, _, _)
RaisedBy(nr, grid, patches, c, k) ==
    IF k > Len(patches) THEN nr
    ELSE IF c \in BoundaryOf(grid, SeqToSet(patches[k]))
    THEN RaisedBy(AddMaterialToNode(PatchRaise(grid, SeqToSet(patches[k])),
                                    [nr EXCEPT !.erosion = TRUE]),
                  grid, patches, c, k + 1)
    ELSE RaisedBy(nr, grid, patches, c, k + 1)

BoundariesRaised(cs, bs) ==
    /\ bs.boundary = UNION {BoundaryOf(cs.grid, SeqToSet(cs.patches[k])) : k \in 1..Len(cs.patches)}
    /\ DOMAIN bs.grid = DOMAIN cs.grid \cup bs.boundary
    /\ SeqToSet(bs.modified) = SeqToSet(cs.modified) \cup bs.boundary
    /\ \A c \in DOMAIN bs.grid :
         bs.grid[c] = RaisedBy(NodeOrNew(cs.grid, c), cs.grid, cs.patches, c, 1)
    /\ \A c \in bs.boundary : bs.grid[c].erosion

\* C21: the boundary of each contact patch is the set of 4-neighbours of its
\* in-contact cells that have no record or are not in contact; each boundary
\* cell gets a record, is flagged for erosion, is marked modified and is
\* raised through AddMaterialToNode by flow_factor * Q / |boundary|, once
\* per patch whose boundary holds it
C21_BoundariesRaisedPerPatch ==
    [][BulldozingStep =>
         \A s \in {RaisedStage(last'.world)} : BoundariesRaised(s.cs, s.bs)]_vars

\* A cell between two patches has been raised by both
C21_Witness ==
    /\ StepTaken
    /\ m_bulldozing
    /\ \E c \in DOMAIN m_grid_map :
         /\ m_grid_map[c].erosion
         /\ m_grid_map[c].level_initial > GetInitHeight(c)
         /\ \E K1, K2 \in Components(last.hit_cells) :
              /\ K1 # K2
              /\ c \in BoundaryOf(last.grid_contact, K1)
              /\ c \in BoundaryOf(last.grid_contact, K2)
              /\ PatchRaise(last.grid_contact, K1) > 0
              /\ PatchRaise(last.grid_contact, K2) > 0

\* ------------------------------------------------------------------------
\* Bulldozing, stage 2: the erosion domain
\* ------------------------------------------------------------------------
\* The cells reached from S in at most p steps to a 4-neighbour that is not
\* in contact
RECURSIVE Reach(_, _, _)
Reach(S, grid, p) ==
    IF p = 0 THEN S
    ELSE Reach(S \cup {nbr \in UNION {Around(c) : c \in S} : NotInContact(grid, nbr)},
               grid, p - 1)

DomainDilated(bs, ds, grid_after, modified_after, num_erosion_nodes) ==
    /\ ds.domain = Reach(bs.boundary, bs.grid, ErosionPropagations)
    /\ ds.domain \subseteq DOMAIN ds.grid
    /\ \A c \in ds.domain : ds.grid[c].erosion /\ c \in SeqToSet(ds.modified)
    /\ \A c \in ds.domain : grid_after[c].erosion /\ c \in SeqToSet(modified_after)
    /\ {c \in DOMAIN grid_after : grid_after[c].erosion} = ds.domain
    /\ num_erosion_nodes = Cardinality(ds.domain)

LevelMatchesSinkage(nr) == nr.normal[3] * (nr.level_initial - nr.level) = nr.sinkage

\* C23: for every node record, after every step and after SetModifiedNodes,
\* ca * (level_initial - level) = sinkage, with ca the z component of the
\* normal; the raises and removals of the bulldozing keep the relation
C23_LevelMatchesSinkage ==
    /\ \A ij \in DOMAIN m_grid_map : LevelMatchesSinkage(m_grid_map[ij])
    /\ \A ij \in DOMAIN fresh_grid_map : LevelMatchesSinkage(fresh_grid_map[ij])

\* A node raised by the bulldozing has been pressed afterwards
C23_Witness ==
    /\ StepTaken
    /\ \E ij \in DOMAIN m_grid_map :
         /\ m_grid_map[ij].sinkage > 0
         /\ m_grid_map[ij].level_initial # GetInitHeight(ij)

\* ------------------------------------------------------------------------
\* Cell indices and the initialized grid
\* ------------------------------------------------------------------------
\* C24: every cell that is ray-cast or that holds a node record lies in
\* [-Nx, Nx] x [-Ny, Ny]
C24_CellsInsideGrid ==
    /\ \A ij \in DOMAIN m_grid_map : CheckMeshBounds(ij)
    /\ StepTaken => \A ij \in SeqToSet(UpdateDefaultActiveDomain(last.world)) : CheckMeshBounds(ij)

\* ------------------------------------------------------------------------
\* Direction of the rays
\* ------------------------------------------------------------------------
\* The rays cast in the last step: start and end point handed to RayHit
RayOfCell(ij) ==
    [from |-> RayFrom(last.grid_reset, ij), to |-> RayTo(last.grid_reset, ij)]

\* C25: the ray of a cell starts at height level + test_up and ends at
\* height level + test_up - test_down: the start point handed to RayHit is
\* the upper end of the segment and the end point is the lower end
C25_RayCastDownwards ==
    StepTaken =>
        \A ij \in SeqToSet(UpdateDefaultActiveDomain(last.world)) :
            /\ RayOfCell(ij).from[3] = GetHeight(last.grid_reset, ij) + TestOffsetUp
            /\ RayOfCell(ij).to[3] = GetHeight(last.grid_reset, ij) + TestOffsetUp - TestOffsetDown

\* ------------------------------------------------------------------------
\* Vertex normals
\* ------------------------------------------------------------------------
\* C26: for every modified cell inside the grid, the cells of the grid
\* border included, the vertex normal is computed from at least one
\* incident face: the face count that divides the sum is never zero
C26_NormalFromSomeFace ==
    StepTaken =>
        \A u \in NormalUpdates(m_trimesh_shape, m_modified_nodes) : u.divisor # 0

\* ------------------------------------------------------------------------
\* The list of modified nodes
\* ------------------------------------------------------------------------
ModifiedInStore ==
    /\ \A ij \in SeqToSet(m_modified_nodes) : ij \in DOMAIN m_grid_map
    /\ Len(GetModifiedNodes(m_grid_map, m_modified_nodes, FALSE)) = Len(m_modified_nodes)

\* The list after a step holds cells of that step only: cells hit by a ray
\* and cells of the erosion domain
ListedInThisStep ==
    nsteps' = nsteps + 1 =>
        \A ij \in SeqToSet(m_modified_nodes') :
            ij \in last'.hit_cells \/ m_grid_map'[ij].erosion

\* C27: the list of modified nodes is cleared at the start of every step
\* and, in every reachable state, each of its cells has a node record in
\* the store, for any interleaving of steps and SetModifiedNodes calls
C27_ModifiedListedInStore == []ModifiedInStore /\ [][ListedInThisStep]_vars

\* A cell pressed in an earlier step has left the list
C27_Witness ==
    /\ StepTaken
    /\ nsteps >= 2
    /\ m_modified_nodes # <<>>
    /\ \E ij \in DOMAIN m_grid_map :
         m_grid_map[ij].sinkage > 0 /\ ij \notin SeqToSet(m_modified_nodes)

\* ------------------------------------------------------------------------
\* Per-step fields of the node records
\* ------------------------------------------------------------------------
Transient(nr) ==
    nr.sigma # 0 \/ nr.sinkage_elastic # 0 \/ nr.step_plastic_flow # 0 \/ nr.erosion

TransientAreListed ==
    \A ij \in DOMAIN m_grid_map :
        Transient(m_grid_map[ij]) => ij \in SeqToSet(m_modified_nodes)

CleanAfterReset ==
    nsteps' = nsteps + 1 =>
        \A ij \in DOMAIN last'.grid_reset : ~Transient(last'.grid_reset[ij])

\* C28: at the end of every step every node record with sigma,
\* sinkage_elastic or step_plastic_flow different from 0, or flagged for
\* erosion, is in the modified list, so right after the reset of the next
\* step every record has these fields at 0 and the flag down
C28_TransientFieldsReset == []TransientAreListed /\ [][CleanAfterReset]_vars

\* A record that carried per-step values has been reset by a later step
\* that did not touch it
C28_Witness ==
    /\ StepTaken
    /\ nsteps >= 2
    /\ \E ij \in DOMAIN last.grid_reset :
         /\ last.grid_reset[ij].sinkage > 0
         /\ ij \notin last.hit_cells
         /\ ~Transient(m_grid_map[ij])

\* ------------------------------------------------------------------------
\* Bulldozing and the cells in contact
\* ------------------------------------------------------------------------
\* The cells in contact in the last step, by the constitutive update
ContactCells == {ij \in DOMAIN last.grid_contact : last.grid_contact[ij].sigma > 0}

HeightKept(ij) ==
    /\ m_grid_map[ij].level = last.grid_contact[ij].level
    /\ m_grid_map[ij].level_initial = last.grid_contact[ij].level_initial
    /\ m_grid_map[ij].level = m_grid_map[ij].hit_level
    /\ m_grid_map[ij].massremainder >= last.grid_contact[ij].massremainder
    /\ ~m_grid_map[ij].erosion

\* C29: a cell in contact in the current step is not in a patch boundary
\* nor in the erosion domain, and material offered to it by the smoothing
\* goes to its massremainder: its level and level_initial after the step
\* are the ones set by the constitutive update
C29_ContactCellsKeepHeight ==
    StepTaken => \A ij \in ContactCells : HeightKept(ij)

\* A cell in contact received material from a neighbour of the domain
C29_Witness ==
    /\ StepTaken
    /\ m_bulldozing
    /\ \E ij \in ContactCells :
         m_grid_map[ij].massremainder > last.grid_contact[ij].massremainder

\* ------------------------------------------------------------------------
\* Counters of the step
\* ------------------------------------------------------------------------
CountersConsistent(c, hit_cells) ==
    /\ 0 <= c.num_contact_patches
    /\ c.num_contact_patches <= c.num_ray_hits
    /\ c.num_ray_hits <= c.num_ray_casts
    /\ c.num_ray_hits = Cardinality(hit_cells)
    /\ c.num_contact_patches = 0 <=> c.num_ray_hits = 0

\* C30: after every step whose active domains all have a body, for any
\* number of active domains,
\* 0 <= GetNumContactPatches() <= GetNumRayHits() <= GetNumRayCasts(),
\* GetNumRayHits() is the number of distinct hit cells, and
\* GetNumContactPatches() = 0 iff GetNumRayHits() = 0
DefinedStep == StepTaken /\ (m_user_domains => NullDomains(m_active_domains) = {})

====
